---- MODULE Spec2Model ----
(***************************************************************************)
(* Session store of financial-insights-ai: the memory tier of              *)
(* src/utils/cache.py (SessionCache) over the durable tier of              *)
(* src/utils/storage.py (DataStorage).                                     *)
(*                                                                         *)
(* Time is in seconds.  DataFrames are heap objects: a reference and a     *)
(* content, so that df.copy() and aliasing are distinguishable.            *)
(***************************************************************************)
EXTENDS Integers, FiniteSets, Sequences, TLC

\* settings.CACHE_TTL
CACHE_TTL == 3600

\* ---- bounds of the model ------------------------------------------------
MaxSessions == 2
MaxTicks == 3
MaxRows == 2
MaxHeld == 1
MaxThreads == 2
MaxBacklog == 1
MaxTemp == 2

SessionIds == 1..MaxSessions
ObjRefs == 1..(MaxSessions + MaxHeld)
\* the clock is read in steps of half a TTL
Quantum == CACHE_TTL \div 2
MaxNow == MaxTicks * Quantum
Columns == {"date", "amount"}

VARIABLES
    now,          \* datetime.now()
    sessions,     \* SessionCache._sessions : id -> SessionInfo
    dataframes,   \* SessionCache._dataframes : id -> reference of a DataFrame
    heap,         \* live DataFrame objects : reference -> content
    held,         \* references the callers of the store hold
    disk,         \* DataStorage.base_path : id -> session directory
    issued,       \* ids uuid4 has produced
    ret,          \* what the last operation returned
    lock,         \* SessionCache._lock : the thread that holds it, or NoThread
    calls,        \* thread -> the store operation it is in, and where
    backlog,      \* the requests that wait for the event loop
    req,          \* the request whose handler the event loop runs
    resp,         \* the response to the request handled last
    last_read,    \* session id -> the time of its latest successful get_session_data
    stdout,       \* sys.stdout of the server process
    raw_df,       \* the DataFrame a caller hands to the DataProcessor
    returned,     \* what the DataProcessor gave back
    tempdir,      \* the files tempfile.NamedTemporaryFile made that still exist
    uploading,    \* temp_file_path -> the content of `file`, for each upload
                  \* handler that is at `await file.read()`
    background_tasks  \* the paths cleanup_temp_file is scheduled for

lockvars == <<lock, calls>>
apivars == <<backlog, req, resp>>
\* what is kept of the past, and the process outside the store and the handlers
histvars == <<last_read>>
procvars == <<stdout>>
datavars == <<raw_df, returned>>
filevars == <<tempdir, uploading, background_tasks>>
envvars == <<histvars, procvars, datavars, filevars>>

vars == <<now, sessions, dataframes, heap, held, disk, issued, ret, lockvars,
          apivars, envvars>>

\* ---- values -------------------------------------------------------------
EmptyMap == [x \in {} |-> 0]
Range(f) == {f[x] : x \in DOMAIN f}
Pop(f, k) == [x \in DOMAIN f \ {k} |-> f[x]]
Put(f, k, v) == [x \in DOMAIN f \cup {k} |-> IF x = k THEN v ELSE f[x]]

\* None, for an Optional[SessionInfo], an Optional[DataFrame], a missing file
NoSession == [created_at |-> -1, last_accessed |-> -1]
NoData == [nrows |-> 0, cols |-> {}, typed |-> FALSE]
NoCsv == [header |-> {}, lines |-> -1]
NoRef == 0

\* the cleaned DataFrames an upload can hand to create_session
Datasets == [nrows : 1..MaxRows, cols : {Columns}, typed : {TRUE}]

Shape(c) == [nrows |-> c.nrows, cols |-> c.cols]

\* ---- DataFrame objects --------------------------------------------------
\* A new object is distinct from every live one.  The object the store makes
\* for session s is numbered s (the one it replaces is unreachable by then);
\* an object made for a caller takes the first number no caller holds.
StoreRef(s) == s
CallerRefs == (MaxSessions + 1)..(MaxSessions + MaxHeld)
CallerRef(H) == CHOOSE r \in CallerRefs \ H : \A q \in CallerRefs \ H : r <= q

\* the object itself instead of a copy of it
DfAlias(src, fresh) == src
\* df.copy(): a new object, `fresh`, with the content of `src`
DfCopy(src, fresh) == fresh

\* reference counting: objects nobody refers to are gone
Collect(h, D, H) == [r \in (DOMAIN h) \cap (Range(D) \cup H) |-> h[r]]

\* ---- DataStorage --------------------------------------------------------
SaveOutcomes == {"ok", "fail_mkdir", "fail_json", "fail_csv", "fail_pickle"}

\* df.to_csv(csv_path) with the index written as a first, unnamed column
to_csv_with_index(c) == [header |-> c.cols \cup {"Unnamed: 0"}, lines |-> c.nrows]
\* df.to_csv(csv_path, index=False): a header line and a line for each row;
\* pd.read_csv(csv_path): the rows under the header, the dtypes inferred anew
to_csv(c) == [header |-> c.cols, lines |-> c.nrows]
read_csv(f) == [nrows |-> f.lines, cols |-> f.header, typed |-> FALSE]

\* df.to_pickle(pickle_path) and pd.read_pickle(pickle_path)
to_pickle(c) == c
read_pickle(p) == p

\* save_session_data: the directory, then session_info.json, then data.csv,
\* then data.pkl; an exception at any step leaves what was written before it.
\* Under "Save original file if it exists in temp" the path original_<filename>
\* is computed and nothing is written to it: the file is never there.
save_session_data(d, s, info, c, outcome) ==
    IF outcome = "fail_mkdir" THEN d
    ELSE Put(d, s,
        [meta |-> IF outcome = "fail_json" THEN NoSession ELSE info,
         csv  |-> IF outcome \in {"fail_json", "fail_csv"} THEN NoCsv ELSE to_csv(c),
         pkl  |-> IF outcome = "ok" THEN to_pickle(c) ELSE NoData,
         original |-> NoCsv])

save_session_data_returns(outcome) == outcome = "ok"

\* a load that makes up a record for a directory it does not find
load_session_data_or_new(d, s) ==
    IF s \in DOMAIN d /\ d[s].meta # NoSession THEN d[s].meta
    ELSE [created_at |-> 0, last_accessed |-> 0]
\* load_session_data: None unless session_info.json exists (and parses)
load_session_data(d, s) ==
    IF s \in DOMAIN d /\ d[s].meta # NoSession THEN d[s].meta ELSE NoSession

\* load_dataframe: data.pkl first, data.csv when there is no data.pkl
load_dataframe(d, s) ==
    IF s \notin DOMAIN d THEN NoData
    ELSE IF d[s].pkl # NoData THEN read_pickle(d[s].pkl)
    ELSE IF d[s].csv # NoCsv THEN read_csv(d[s].csv)
    ELSE NoData

\* a delete that removes the whole data directory
delete_session_data_all(d, s) == EmptyMap
\* shutil.rmtree(self.base_path / session_id)
delete_session_data(d, s) == Pop(d, s)
delete_session_data_returns(d, s) == s \in DOMAIN d

\* ---- SessionCache helpers -----------------------------------------------
\* an expiry that sets in at the TTL itself
is_session_expired_at_ttl(info, t) == t >= info.last_accessed + CACHE_TTL
\* datetime.now() > session_info.last_accessed + timedelta(seconds=CACHE_TTL)
is_session_expired(info, t) == t > info.last_accessed + CACHE_TTL

\* _cleanup_session on the pair of maps
cleanup_session(mem, s) == [sessions |-> Pop(mem.sessions, s),
                            dataframes |-> Pop(mem.dataframes, s)]

\* the wrong timestamp written on a read
TouchCreated(info, t) == [info EXCEPT !.last_accessed = info.created_at]
\* session_info.last_accessed = datetime.now()
Touch(info, t) == [info EXCEPT !.last_accessed = t]

\* a lookup that never finds the cached DataFrame
CachedDataframeNone(D, s) == NoRef
\* self._dataframes.get(session_id)
CachedDataframe(D, s) == IF s \in DOMAIN D THEN D[s] ELSE NoRef

Mem == [sessions |-> sessions, dataframes |-> dataframes]

\* ---- threads and the lock ----------------------------------------------
Threads == 1..MaxThreads
NoThread == 0

\* the public methods of SessionCache
Operations == {"create_session", "get_session_data", "get_dataframe",
               "update_session_access", "delete_session",
               "cleanup_expired_sessions", "get_active_sessions_count",
               "get_cache_stats"}

NotCalling == [op |-> "none", at |-> "idle"]

Result(op, s, found) ==
    [op |-> op, id |-> s, found |-> found, created_at |-> -1,
     last_accessed |-> -1, content |-> NoData, ref |-> NoRef,
     src |-> "none", saved |-> FALSE]

\* ---- Init ---------------------------------------------------------------
\* the module-level singletons as they are constructed
Construct ==
    /\ now = 0
    /\ sessions = EmptyMap
    /\ dataframes = EmptyMap
    /\ heap = EmptyMap
    /\ held = {}
    /\ disk = EmptyMap
    /\ issued = {}
    /\ ret = Result("init", 0, FALSE)
    /\ lock = NoThread
    /\ calls = [t \in Threads |-> NotCalling]
    /\ backlog = 0
    /\ req = [ep |-> "none", session_id |-> <<>>, query |-> <<>>, pc |-> "idle",
              df |-> NoRef, route |-> "none", bucket |-> "none", steps |-> <<>>,
              prompt |-> [template |-> "none", query |-> <<>>,
                          data_summary |-> [records |-> 0, columns |-> {}]]]
    /\ resp = [ep |-> "none", status |-> 0, raised |-> "", body |-> <<>>,
               reply |-> [kind |-> "none", text |-> <<>>]]
    /\ last_read = EmptyMap
    /\ stdout = "sys.__stdout__"
    /\ tempdir = {}
    /\ uploading = EmptyMap
    /\ background_tasks = {}

Init ==
    /\ Construct
    /\ raw_df = [columns |-> <<>>, rows |-> <<>>]
    /\ returned = [op |-> "none", raised |-> "", df |-> [columns |-> <<>>, rows |-> <<>>],
                   detected |-> [date |-> <<>>, amount |-> <<>>, category |-> <<>>,
                                 description |-> <<>>]]

\* ---- SessionCache.create_session ----------------------------------------
\* c: the caller's DataFrame; o: how the durable write goes.  The two
\* datetime.now() reads fall in the same step of the clock.
create_session(s, c, o) ==
    /\ s \notin issued
    /\ Cardinality(held) < MaxHeld
    /\ LET arg == CallerRef(held)
           h1 == Put(heap, arg, c)
           stored == DfCopy(arg, StoreRef(s))
           h2 == Put(h1, stored, h1[arg])
           info == [created_at |-> now, last_accessed |-> now]
       IN  /\ sessions' = Put(sessions, s, info)
           /\ dataframes' = Put(dataframes, s, stored)
           /\ held' = held \cup {arg}
           /\ heap' = Collect(h2, dataframes', held')
           /\ disk' = save_session_data(disk, s, info, h2[arg], o)
           /\ ret' = [Result("create_session", s, TRUE) EXCEPT
                         !.created_at = info.created_at,
                         !.last_accessed = info.last_accessed,
                         !.saved = save_session_data_returns(o)]
    /\ issued' = issued \cup {s}
    /\ UNCHANGED now

\* ---- SessionCache.get_session_data --------------------------------------
get_session_data(s) ==
    /\ IF s \in DOMAIN sessions
       THEN IF is_session_expired(sessions[s], now)
            THEN /\ sessions' = cleanup_session(Mem, s).sessions
                 /\ dataframes' = cleanup_session(Mem, s).dataframes
                 /\ disk' = disk
                 /\ ret' = Result("get_session_data", s, FALSE)
            ELSE LET info == Touch(sessions[s], now)
                 IN  /\ sessions' = Put(sessions, s, info)
                     /\ UNCHANGED <<dataframes, disk>>
                     /\ ret' = [Result("get_session_data", s, TRUE) EXCEPT
                                   !.created_at = info.created_at,
                                   !.last_accessed = info.last_accessed,
                                   !.src = "cache"]
       ELSE LET loaded == load_session_data(disk, s)
            IN  IF loaded # NoSession
                THEN IF is_session_expired(loaded, now)
                     THEN /\ disk' = delete_session_data(disk, s)
                          /\ UNCHANGED <<sessions, dataframes>>
                          /\ ret' = Result("get_session_data", s, FALSE)
                     ELSE LET info == Touch(loaded, now)
                          IN  /\ sessions' = Put(sessions, s, info)
                              /\ UNCHANGED <<dataframes, disk>>
                              /\ ret' = [Result("get_session_data", s, TRUE) EXCEPT
                                            !.created_at = info.created_at,
                                            !.last_accessed = info.last_accessed,
                                            !.src = "storage"]
                ELSE /\ UNCHANGED <<sessions, dataframes, disk>>
                     /\ ret' = Result("get_session_data", s, FALSE)
    /\ heap' = Collect(heap, dataframes', held)
    /\ UNCHANGED <<now, held, issued>>

\* ---- SessionCache.get_dataframe -----------------------------------------
\* the storage branch of get_dataframe (also reached when the session is
\* cached without its DataFrame).  The loaded DataFrame `tmp` is local to the
\* call: its number is free again for the copy that is returned.
get_dataframe_from_storage(s) ==
    LET c == load_dataframe(disk, s)
    IN  IF c # NoData
        THEN LET tmp == CallerRef(held)
                 h1 == Put(heap, tmp, c)
                 stored == DfCopy(tmp, StoreRef(s))
                 h2 == Put(h1, stored, h1[tmp])
                 out == DfCopy(tmp, CallerRef(held))
                 h3 == Put(h2, out, h2[tmp])
             IN  /\ dataframes' = Put(dataframes, s, stored)
                 /\ held' = held \cup {out}
                 /\ heap' = Collect(h3, dataframes', held')
                 /\ ret' = [Result("get_dataframe", s, TRUE) EXCEPT
                               !.content = h3[out], !.ref = out,
                               !.src = "storage"]
                 /\ UNCHANGED sessions
        ELSE /\ UNCHANGED <<sessions, dataframes, heap, held>>
             /\ ret' = Result("get_dataframe", s, FALSE)

get_dataframe(s) ==
    /\ Cardinality(held) < MaxHeld
    /\ IF s \in DOMAIN sessions
       THEN IF is_session_expired(sessions[s], now)
            THEN /\ sessions' = cleanup_session(Mem, s).sessions
                 /\ dataframes' = cleanup_session(Mem, s).dataframes
                 /\ held' = held
                 /\ heap' = Collect(heap, dataframes', held')
                 /\ ret' = Result("get_dataframe", s, FALSE)
            ELSE LET df == CachedDataframe(dataframes, s)
                 IN  IF df # NoRef
                     THEN LET out == DfCopy(df, CallerRef(held))
                          IN  /\ held' = held \cup {out}
                              /\ heap' = Put(heap, out, heap[df])
                              /\ ret' = [Result("get_dataframe", s, TRUE) EXCEPT
                                            !.content = heap'[out], !.ref = out,
                                            !.src = "cache"]
                              /\ UNCHANGED <<sessions, dataframes>>
                     ELSE get_dataframe_from_storage(s)
       ELSE get_dataframe_from_storage(s)
    /\ UNCHANGED <<now, disk, issued>>

\* ---- SessionCache.update_session_access ---------------------------------
update_session_access(s) ==
    /\ sessions' = IF s \in DOMAIN sessions
                   THEN [sessions EXCEPT ![s].last_accessed = now]
                   ELSE sessions
    /\ ret' = Result("update_session_access", s, s \in DOMAIN sessions)
    /\ UNCHANGED <<now, dataframes, heap, held, disk, issued>>

\* ---- SessionCache.delete_session ----------------------------------------
delete_session(s) ==
    LET deleted_memory == s \in DOMAIN sessions
        deleted_storage == delete_session_data_returns(disk, s)
        mem == IF deleted_memory THEN cleanup_session(Mem, s) ELSE Mem
    IN  /\ sessions' = mem.sessions
        /\ dataframes' = mem.dataframes
        /\ disk' = delete_session_data(disk, s)
        /\ heap' = Collect(heap, dataframes', held)
        /\ ret' = Result("delete_session", s, deleted_memory \/ deleted_storage)
        /\ UNCHANGED <<now, held, issued>>

\* ---- SessionCache.cleanup_expired_sessions ------------------------------
RECURSIVE CleanupAll(_, _)
CleanupAll(mem, ids) ==
    IF ids = {} THEN mem
    ELSE LET s == CHOOSE x \in ids : TRUE
         IN  CleanupAll(cleanup_session(mem, s), ids \ {s})

ExpiredSessions(S, t) == {s \in DOMAIN S : is_session_expired(S[s], t)}

cleanup_expired_sessions ==
    LET mem == CleanupAll(Mem, ExpiredSessions(sessions, now))
    IN  /\ sessions' = mem.sessions
        /\ dataframes' = mem.dataframes
        /\ heap' = Collect(heap, dataframes', held)
        /\ ret' = Result("cleanup_expired_sessions", 0, FALSE)
        /\ UNCHANGED <<now, held, disk, issued>>

\* ---- the environment ----------------------------------------------------
\* the clock advances
Tick ==
    /\ now + Quantum <= MaxNow
    /\ now' = now + Quantum
    /\ ret' = Result("env", 0, FALSE)
    /\ UNCHANGED <<sessions, dataframes, heap, held, disk, issued>>

\* a caller changes, in place, a DataFrame it holds
Mutate(r, c) ==
    /\ r \in held
    /\ c # heap[r]
    /\ heap' = [heap EXCEPT ![r] = c]
    /\ ret' = [Result("mutate", 0, FALSE) EXCEPT !.ref = r]
    /\ UNCHANGED <<now, sessions, dataframes, held, disk, issued>>

\* a caller lets go of a DataFrame
Drop(r) ==
    /\ r \in held
    /\ held' = held \ {r}
    /\ heap' = Collect(heap, dataframes, held')
    /\ ret' = Result("env", 0, FALSE)
    /\ UNCHANGED <<now, sessions, dataframes, disk, issued>>

\* the process is started again over the same data directory
Restart ==
    /\ sessions' = EmptyMap
    /\ dataframes' = EmptyMap
    /\ heap' = EmptyMap
    /\ held' = {}
    /\ ret' = Result("restart", 0, FALSE)
    /\ UNCHANGED <<now, disk, issued>>

\* the store with one caller at a time: nothing else moves
Sole == UNCHANGED <<lockvars, apivars, envvars>>

Next ==
    \/ \E s \in SessionIds, c \in Datasets, o \in SaveOutcomes :
           create_session(s, c, o) /\ Sole
    \/ \E s \in SessionIds : get_session_data(s) /\ Sole
    \/ \E s \in SessionIds : get_dataframe(s) /\ Sole
    \/ \E s \in SessionIds : update_session_access(s) /\ Sole
    \/ \E s \in SessionIds : delete_session(s) /\ Sole
    \/ cleanup_expired_sessions /\ Sole
    \/ Tick /\ Sole
    \/ \E r \in ObjRefs, c \in Datasets : Mutate(r, c) /\ Sole
    \/ \E r \in ObjRefs : Drop(r) /\ Sole

Spec == Init /\ [][Next]_vars

NextCrash == Next \/ (Restart /\ Sole)

SpecCrash == Init /\ [][NextCrash]_vars

\* ---- the store and the record of its reads -------------------------------
\* an operation of the store, and the note of the time when it was a
\* get_session_data that returned the session; the note of a session goes
\* when its directory goes
Noting(op) ==
    /\ op
    /\ last_read' = IF ret'.op = "get_session_data" /\ ret'.found
                    THEN Put(last_read, ret'.id, now)
                    ELSE [s \in DOMAIN last_read \cap DOMAIN disk' |-> last_read[s]]
    /\ UNCHANGED <<lockvars, apivars, procvars, datavars, filevars>>

\* the operations that read, load, evict or delete a session; what only stamps
\* the memory record (update_session_access) or copies a DataFrame is left out
NextReload ==
    \/ \E s \in SessionIds, c \in Datasets, o \in SaveOutcomes :
           Noting(create_session(s, c, o))
    \/ \E s \in SessionIds : Noting(get_session_data(s))
    \/ \E s \in SessionIds : Noting(delete_session(s))
    \/ Noting(cleanup_expired_sessions)
    \/ Noting(Tick)
    \/ \E r \in ObjRefs : Noting(Drop(r))
    \/ Noting(Restart)

SpecReload == Init /\ [][NextReload]_vars

TypeOK ==
    /\ now \in 0..MaxNow
    /\ DOMAIN sessions \subseteq SessionIds
    /\ DOMAIN dataframes \subseteq SessionIds
    /\ held \subseteq DOMAIN heap
    /\ Range(dataframes) \subseteq DOMAIN heap
    /\ DOMAIN heap \subseteq ObjRefs
    /\ DOMAIN disk \subseteq issued

\* ---- SessionCache called from several threads ----------------------------
\* The clock stands still here: what is looked at is how the calls interleave.
\* get_active_sessions_count and get_cache_stats: the sizes of the two maps
Sizes(op) ==
    [op |-> op, id |-> 0, found |-> FALSE,
     active_sessions |-> Cardinality(DOMAIN sessions),
     cached_dataframes |-> Cardinality(DOMAIN dataframes)]

get_active_sessions_count ==
    /\ ret' = Sizes("get_active_sessions_count")
    /\ UNCHANGED <<now, sessions, dataframes, heap, held, disk, issued>>

get_cache_stats ==
    /\ ret' = Sizes("get_cache_stats")
    /\ UNCHANGED <<now, sessions, dataframes, heap, held, disk, issued>>

\* a method whose body is not under `with self._lock`
with_lock_but_reads(op) == op \notin {"get_dataframe", "get_active_sessions_count"}
\* the methods whose whole body is under `with self._lock`
with_lock(op) == op \in Operations

\* a thread calls a method of the store
call(t, op) ==
    /\ calls[t].at = "idle"
    /\ calls' = [calls EXCEPT ![t] = [op |-> op, at |-> "enter"]]
    /\ UNCHANGED <<now, sessions, dataframes, heap, held, disk, issued, ret, lock>>
    /\ UNCHANGED <<apivars, envvars>>

\* `with self._lock:` the thread waits until the lock is free and takes it
acquire(t) ==
    /\ calls[t].at = "enter"
    /\ IF with_lock(calls[t].op)
       THEN lock = NoThread /\ lock' = t
       ELSE lock' = lock
    /\ calls' = [calls EXCEPT ![t].at = "body"]
    /\ UNCHANGED <<now, sessions, dataframes, heap, held, disk, issued, ret>>
    /\ UNCHANGED <<apivars, envvars>>

\* the body of the method, and the end of the `with` block
body(op) ==
    CASE op = "create_session" ->
             \E s \in SessionIds, c \in Datasets, o \in SaveOutcomes :
                 create_session(s, c, o)
      [] op = "get_session_data" -> \E s \in SessionIds : get_session_data(s)
      [] op = "get_dataframe" -> \E s \in SessionIds : get_dataframe(s)
      [] op = "update_session_access" ->
             \E s \in SessionIds : update_session_access(s)
      [] op = "delete_session" -> \E s \in SessionIds : delete_session(s)
      [] op = "cleanup_expired_sessions" -> cleanup_expired_sessions
      [] op = "get_active_sessions_count" -> get_active_sessions_count
      [] op = "get_cache_stats" -> get_cache_stats

run(t) ==
    /\ calls[t].at = "body"
    /\ body(calls[t].op)
    /\ lock' = IF lock = t THEN NoThread ELSE lock
    /\ calls' = [calls EXCEPT ![t] = NotCalling]
    /\ UNCHANGED <<apivars, envvars>>

NextLock ==
    \/ \E t \in Threads, op \in Operations : call(t, op)
    \/ \E t \in Threads : acquire(t)
    \/ \E t \in Threads : run(t)
    \/ \E r \in ObjRefs : Drop(r) /\ Sole

SpecLock == Init /\ [][NextLock]_vars

\* ---- text -----------------------------------------------------------------
\* A str whose characters matter (a query, a session id) is the sequence of
\* its characters.
UpperCase == <<"A","B","C","D","E","F","G","H","I","J","K","L","M",
               "N","O","P","Q","R","S","T","U","V","W","X","Y","Z">>
LowerCase == <<"a","b","c","d","e","f","g","h","i","j","k","l","m",
               "n","o","p","q","r","s","t","u","v","w","x","y","z">>
Digits == {"0","1","2","3","4","5","6","7","8","9"}
Whitespace == {" ", "\t", "\n", "\r", "\f"}

\* str.lower()
lower_char(c) ==
    IF \E i \in 1..26 : UpperCase[i] = c
    THEN LowerCase[CHOOSE i \in 1..26 : UpperCase[i] = c]
    ELSE c
lower(s) == [i \in 1..Len(s) |-> lower_char(s[i])]

\* str.strip()
strip(s) ==
    LET inked == {i \in 1..Len(s) : s[i] \notin Whitespace}
    IN  IF inked = {} THEN <<>>
        ELSE SubSeq(s, CHOOSE i \in inked : \A j \in inked : i <= j,
                       CHOOSE i \in inked : \A j \in inked : i >= j)

\* `w in s` for two str
contains(s, w) ==
    \E i \in 1..(Len(s) - Len(w) + 1) : SubSeq(s, i, i + Len(w) - 1) = w

\* any(word in s for word in words)
any_in(s, words) == \E k \in 1..Len(words) : contains(s, words[k])

\* ---- re -------------------------------------------------------------------
\* A pattern is a sequence of items: a set of characters (or its complement)
\* taken once, one or more times (+), or any number of times (*, *?).
One(S) == [chars |-> S, neg |-> FALSE, rep |-> "1"]
Many(S) == [chars |-> S, neg |-> FALSE, rep |-> "+"]
\* `.*?` : any characters but a newline
AnyRun == [chars |-> {"\n"}, neg |-> TRUE, rep |-> "*"]
Word(w) == [i \in 1..Len(w) |-> One({w[i]})]
Times(S, n) == [i \in 1..n |-> One(S)]

Accepts(item, c) == (c \in item.chars) # item.neg

\* the positions right after a match of p[k..] that starts at position i of s
RECURSIVE re_ends(_, _, _, _)
re_ends(s, i, p, k) ==
    IF k > Len(p) THEN {i}
    ELSE LET spans == {n \in 0..(Len(s) - i + 1) :
                          \A m \in i..(i + n - 1) : Accepts(p[k], s[m])}
             takes == CASE p[k].rep = "1" -> spans \cap {1}
                        [] p[k].rep = "+" -> spans \ {0}
                        [] p[k].rep = "*" -> spans
         IN  UNION {re_ends(s, i + n, p, k + 1) : n \in takes}

\* re.search(p, s)
re_search(p, s) == \E i \in 1..(Len(s) + 1) : re_ends(s, i, p, 1) # {}

\* `$` : the end of the str, or right before a newline that ends it
at_dollar(s, j) == j = Len(s) + 1 \/ (j = Len(s) /\ s[j] = "\n")

\* re.match('^' p '$', s)
re_match_to_end(p, s) == \E j \in re_ends(s, 1, p, 1) : at_dollar(s, j)

\* len(query) < 3, len(query) > 1000
MinQueryLen == 3
MaxQueryLen == 1000

\* ---- DataValidator --------------------------------------------------------
HexLower == Digits \cup {"a","b","c","d","e","f"}

\* r'^[0-9a-f]{8}-[0-9a-f]{4}-[0-9a-f]{4}-[0-9a-f]{4}-[0-9a-f]{12}$'
uuid_pattern ==
    Times(HexLower, 8) \o Word(<<"-">>) \o Times(HexLower, 4) \o Word(<<"-">>)
    \o Times(HexLower, 4) \o Word(<<"-">>) \o Times(HexLower, 4)
    \o Word(<<"-">>) \o Times(HexLower, 12)

\* validate_session_id: re.match(uuid_pattern, session_id, re.IGNORECASE)
validate_session_id(session_id) ==
    /\ session_id # <<>>
    /\ re_match_to_end(uuid_pattern, lower(session_id))

\* r'<script.*?>.*?</script>', r'javascript:', r'vbscript:', r'<iframe.*?>',
\* r'<object.*?>'
suspicious_patterns ==
    << Word(<<"<","s","c","r","i","p","t">>) \o <<AnyRun>> \o Word(<<">">>) \o <<AnyRun>>
           \o Word(<<"<","/","s","c","r","i","p","t",">">>),
       Word(<<"j","a","v","a","s","c","r","i","p","t",":">>),
       Word(<<"v","b","s","c","r","i","p","t",":">>),
       Word(<<"<","i","f","r","a","m","e">>) \o <<AnyRun>> \o Word(<<">">>),
       Word(<<"<","o","b","j","e","c","t">>) \o <<AnyRun>> \o Word(<<">">>) >>

\* validate_query_input: the tests in their order, the patterns with
\* re.IGNORECASE
validate_query_input(query) ==
    /\ query # <<>>
    /\ Len(strip(query)) >= MinQueryLen
    /\ Len(strip(query)) <= MaxQueryLen
    /\ \A k \in 1..Len(suspicious_patterns) :
           ~re_search(suspicious_patterns[k], lower(strip(query)))

\* ---- CodeExecutor.is_code_query ---------------------------------------------
\* 'specific', 'exact', 'find', 'search', 'lookup', 'locate', 'when did',
\* 'what date', 'which date', 'on what date', 'ID', 'reference', 'record',
\* 'row', 'entry', 'item', 'individual', 'show me', 'get me', 'retrieve',
\* 'fetch', 'customer_id', 'customer id', 'transaction_id', 'transaction id',
\* 'this customer', 'this transaction', 'of this', 'for this', 'spent
\* amount', 'spending by'
code_indicators ==
    << <<"s","p","e","c","i","f","i","c">>, <<"e","x","a","c","t">>, <<"f","i","n","d">>,
       <<"s","e","a","r","c","h">>, <<"l","o","o","k","u","p">>, <<"l","o","c","a","t","e">>,
       <<"w","h","e","n"," ","d","i","d">>, <<"w","h","a","t"," ","d","a","t","e">>,
       <<"w","h","i","c","h"," ","d","a","t","e">>,
       <<"o","n"," ","w","h","a","t"," ","d","a","t","e">>, <<"I","D">>,
       <<"r","e","f","e","r","e","n","c","e">>, <<"r","e","c","o","r","d">>, <<"r","o","w">>,
       <<"e","n","t","r","y">>, <<"i","t","e","m">>, <<"i","n","d","i","v","i","d","u","a","l">>,
       <<"s","h","o","w"," ","m","e">>, <<"g","e","t"," ","m","e">>,
       <<"r","e","t","r","i","e","v","e">>, <<"f","e","t","c","h">>,
       <<"c","u","s","t","o","m","e","r","_","i","d">>,
       <<"c","u","s","t","o","m","e","r"," ","i","d">>,
       <<"t","r","a","n","s","a","c","t","i","o","n","_","i","d">>,
       <<"t","r","a","n","s","a","c","t","i","o","n"," ","i","d">>,
       <<"t","h","i","s"," ","c","u","s","t","o","m","e","r">>,
       <<"t","h","i","s"," ","t","r","a","n","s","a","c","t","i","o","n">>,
       <<"o","f"," ","t","h","i","s">>, <<"f","o","r"," ","t","h","i","s">>,
       <<"s","p","e","n","t"," ","a","m","o","u","n","t">>,
       <<"s","p","e","n","d","i","n","g"," ","b","y">> >>

UpperSet == {UpperCase[i] : i \in 1..26}
IdChars == UpperSet \cup Digits
Gap == Many({"_"} \cup Whitespace)

\* r'customer[_\s]+id[_\s]+[A-Z0-9]+', r'transaction[_\s]+id[_\s]+[A-Z0-9]+',
\* r'id[_\s]+[A-Z0-9]+', r'[A-Z]\d+', r'this\s+customer', r'this\s+transaction'
specific_patterns ==
    << Word(<<"c","u","s","t","o","m","e","r">>) \o <<Gap>> \o Word(<<"i","d">>) \o <<Gap, Many(IdChars)>>,
       Word(<<"t","r","a","n","s","a","c","t","i","o","n">>) \o <<Gap>> \o Word(<<"i","d">>) \o <<Gap, Many(IdChars)>>,
       Word(<<"i","d">>) \o <<Gap, Many(IdChars)>>,
       <<One(UpperSet), Many(Digits)>>,
       Word(<<"t","h","i","s">>) \o <<Many(Whitespace)>> \o Word(<<"c","u","s","t","o","m","e","r">>),
       Word(<<"t","h","i","s">>) \o <<Many(Whitespace)>> \o Word(<<"t","r","a","n","s","a","c","t","i","o","n">>) >>

\* the indicators and the patterns are looked for in query.lower()
has_keyword(query) == any_in(lower(query), code_indicators)
has_pattern(query) ==
    \E k \in 1..Len(specific_patterns) : re_search(specific_patterns[k], lower(query))

\* the patterns alone
is_code_query_by_pattern(query) == has_pattern(query)
is_code_query(query) == has_keyword(query) \/ has_pattern(query)

\* ---- CodeExecutor.get_code_confidence --------------------------------------
\* 'specific', 'exact', 'find', 'search'
exact_match_words ==
    << <<"s","p","e","c","i","f","i","c">>, <<"e","x","a","c","t">>, <<"f","i","n","d">>,
       <<"s","e","a","r","c","h">> >>

\* high for every query that was run, whatever its words
get_code_confidence_by_success(query, success) ==
    IF ~success THEN "low" ELSE "high"
get_code_confidence(query, success) ==
    IF ~success THEN "low"
    ELSE IF any_in(lower(query), exact_match_words) THEN "high"
    ELSE "medium"

\* ---- PromptTemplates.detect_query_type -------------------------------------
\* the words of each type, in the order they are looked for
query_type_words ==
    \* 'transaction id', 'transaction', 'T100', 'specific', 'exact', 'find',
    \* 'search', 'lookup', 'when did', 'what date', 'which date'
    [ code_execution |->
        << <<"t","r","a","n","s","a","c","t","i","o","n"," ","i","d">>,
        <<"t","r","a","n","s","a","c","t","i","o","n">>, <<"T","1","0","0">>,
        <<"s","p","e","c","i","f","i","c">>, <<"e","x","a","c","t">>, <<"f","i","n","d">>,
        <<"s","e","a","r","c","h">>, <<"l","o","o","k","u","p">>, <<"w","h","e","n"," ","d","i","d">>,
        <<"w","h","a","t"," ","d","a","t","e">>, <<"w","h","i","c","h"," ","d","a","t","e">> >>,
    \* 'category', 'categories', 'type', 'types', 'spend on', 'spending on'
      category |->
        << <<"c","a","t","e","g","o","r","y">>, <<"c","a","t","e","g","o","r","i","e","s">>,
        <<"t","y","p","e">>, <<"t","y","p","e","s">>, <<"s","p","e","n","d"," ","o","n">>,
        <<"s","p","e","n","d","i","n","g"," ","o","n">> >>,
    \* 'month', 'monthly', 'week', 'weekly', 'year', 'yearly', 'time', 'trend',
    \* 'over time', 'seasonal'
      time |->
        << <<"m","o","n","t","h">>, <<"m","o","n","t","h","l","y">>, <<"w","e","e","k">>,
        <<"w","e","e","k","l","y">>, <<"y","e","a","r">>, <<"y","e","a","r","l","y">>,
        <<"t","i","m","e">>, <<"t","r","e","n","d">>, <<"o","v","e","r"," ","t","i","m","e">>,
        <<"s","e","a","s","o","n","a","l">> >>,
    \* 'compare', 'comparison', 'vs', 'versus', 'difference', 'higher', 'lower',
    \* 'more', 'less'
      comparison |->
        << <<"c","o","m","p","a","r","e">>, <<"c","o","m","p","a","r","i","s","o","n">>, <<"v","s">>,
        <<"v","e","r","s","u","s">>, <<"d","i","f","f","e","r","e","n","c","e">>,
        <<"h","i","g","h","e","r">>, <<"l","o","w","e","r">>, <<"m","o","r","e">>,
        <<"l","e","s","s">> >>,
    \* 'top', 'bottom', 'highest', 'lowest', 'most', 'least', 'maximum',
    \* 'minimum', 'best', 'worst'
      top_items |->
        << <<"t","o","p">>, <<"b","o","t","t","o","m">>, <<"h","i","g","h","e","s","t">>,
        <<"l","o","w","e","s","t">>, <<"m","o","s","t">>, <<"l","e","a","s","t">>,
        <<"m","a","x","i","m","u","m">>, <<"m","i","n","i","m","u","m">>, <<"b","e","s","t">>,
        <<"w","o","r","s","t">> >>,
    \* 'summary', 'summarize', 'overview', 'total', 'overall'
      summary |->
        << <<"s","u","m","m","a","r","y">>, <<"s","u","m","m","a","r","i","z","e">>,
        <<"o","v","e","r","v","i","e","w">>, <<"t","o","t","a","l">>, <<"o","v","e","r","a","l","l">> >> ]

detect_query_type(query) ==
    LET query_lower == lower(query)
    IN  IF any_in(query_lower, query_type_words.code_execution) THEN "code_execution"
        ELSE IF any_in(query_lower, query_type_words.category) THEN "category"
        ELSE IF any_in(query_lower, query_type_words.time) THEN "time"
        ELSE IF any_in(query_lower, query_type_words.comparison) THEN "comparison"
        ELSE IF any_in(query_lower, query_type_words.top_items) THEN "top_items"
        ELSE IF any_in(query_lower, query_type_words.summary) THEN "summary"
        ELSE "general"

\* ---- what the oracle sends back ---------------------------------------------
\* A text whose lines matter (a program, an analysis) is the sequence of its
\* lines; the words of an answer are a sequence of phrases.
Line(n, do, arg) == [indent |-> n, do |-> do, arg |-> arg]
Blank(n) == Line(n, "blank", "")
\* a line of three backquotes and, after them, `lang`
Fence(lang) == Line(0, "fence", lang)

\* JSON values
JStr(s) == [t |-> "str", v |-> s]
JList(xs) == [t |-> "list", v |-> xs]
JObj(f) == [t |-> "object", v |-> f]
JsonLine(value) == Line(0, "json", value)

\* model.generate_content(prompt): it raises, or the response has no text,
\* or it has one
Raises == [kind |-> "raise", text |-> <<>>]
NoText == [kind |-> "empty", text |-> <<>>]
Text(lines) == [kind |-> "text", text |-> lines]
HasText(reply) == reply.kind = "text" /\ reply.text # <<>>

\* ---- CodeExecutor -----------------------------------------------------------
\* line.strip() == the three backquotes
IsClosingFence(l) == l.do = "fence" /\ l.arg = ""

\* lines[0].startswith('```') ... lines[-1].strip() == '```'
strip_fence(code) ==
    IF code # <<>> /\ code[1].do = "fence"
    THEN SubSeq(code, 2, IF IsClosingFence(code[Len(code)])
                         THEN Len(code) - 1 ELSE Len(code))
    ELSE code

\* _generate_fallback_code: the lines of the f-string, as they are indented
fallback_code ==
    << Blank(0),
       Line(8, "import", "pandas"),
       Blank(0),
       Line(8, "assign", "df = pd.read_csv(file_path)"),
       Blank(0),
       Line(8, "print", "Showing a preview of the data:"),
       Line(8, "print", "df.head()"),
       Blank(0),
       Line(8, "print", "Could not automatically generate code for the query"),
       Line(8, "print", "Please clarify your request"),
       Blank(8) >>

\* generate_code_from_query: the cleaned text of the oracle, or the fallback
generate_code_from_query(reply) ==
    IF HasText(reply) THEN strip_fence(reply.text) ELSE fallback_code

\* exec(code, safe_globals): the statements in their order.  A statement that
\* is indented with no block open, or a fence left in the code, is an error of
\* the compiler, before anything runs.
Statements(code) == SelectSeq(code, LAMBDA l : l.do # "blank")

RECURSIVE exec_from(_, _, _)
exec_from(stmts, k, out) ==
    IF k > Len(stmts) THEN [end |-> "done", out |-> out, msg |-> ""]
    ELSE CASE stmts[k].do = "print" ->
                  exec_from(stmts, k + 1, Append(out, stmts[k].arg))
           [] stmts[k].do = "raise" ->
                  [end |-> "Exception", out |-> out, msg |-> stmts[k].arg]
           [] stmts[k].do = "sys.exit" ->
                  [end |-> "SystemExit", out |-> out, msg |-> stmts[k].arg]
           [] OTHER -> exec_from(stmts, k + 1, out)

exec(code) ==
    LET stmts == Statements(code)
    IN  IF \E k \in 1..Len(stmts) : stmts[k].indent # 0
        THEN [end |-> "Exception", out |-> <<>>, msg |-> "unexpected indent"]
        ELSE IF \E k \in 1..Len(stmts) : stmts[k].do \in {"fence", "json"}
        THEN [end |-> "Exception", out |-> <<>>, msg |-> "invalid syntax"]
        ELSE exec_from(stmts, 1, <<>>)

\* `except Exception`: SystemExit is no Exception
caught_by_except_Exception(end) == end = "Exception"

\* execute_code: (output, success), or the exception that goes through it.
\* sys.stdout is set to captured_output before exec; `sys.stdout = old_stdout`
\* stands after exec and in the `except Exception` block, and nowhere else:
\* stdout is what sys.stdout refers to when the call is left.
execute_code(code) ==
    LET r == exec(strip_fence(code))
    IN  IF r.end = "done"
        THEN [raised |-> "", success |-> TRUE, stdout |-> "old_stdout",
              output |-> IF r.out = <<>>
                         THEN <<"Code executed successfully but no output was generated.">>
                         ELSE r.out]
        ELSE IF caught_by_except_Exception(r.end)
        THEN [raised |-> "", success |-> FALSE, stdout |-> "old_stdout",
              output |-> <<"Execution error: ", r.msg>>]
        ELSE [raised |-> r.end, success |-> FALSE, stdout |-> "captured_output",
              output |-> <<>>]

format_code_response(query, output, success) ==
    IF success THEN output
    ELSE <<"I couldn't process your query due to an error: ">> \o output

\* ---- QueryResponse ----------------------------------------------------------
\* Optional[str]
None == [some |-> FALSE, text |-> <<>>]
Some(text) == [some |-> TRUE, text |-> text]

\* the fields of QueryResponse but the timestamp
QueryResponse(query, answer, insights, data_points, confidence, limitations) ==
    [query |-> query, answer |-> answer, insights |-> insights,
     data_points |-> data_points, confidence |-> confidence,
     limitations |-> limitations]

\* what a call ends with: a value it returns, or an exception it lets through
\* (access: update_session_access was called on the way)
Returns(value) == [raised |-> "", value |-> value, access |-> FALSE]
Touching(value) == [raised |-> "", value |-> value, access |-> TRUE]
Lets(exc, msg) == [raised |-> exc, value |-> msg, access |-> FALSE]

\* ---- QueryEngine._process_code_query ----------------------------------------
\* "found" in output.lower()
PhrasesWithFound == {"2 records found"}

code_insights(output, success) ==
    IF success /\ output # <<>>
    THEN <<"Executed code analysis on complete dataset", "Data loaded from: ">>
         \o (IF \E i \in 1..Len(output) : output[i] \in PhrasesWithFound
             THEN <<"Specific records found in dataset">> ELSE <<>>)
    ELSE <<>>

\* csv_exists: data.csv of the session is there; reply: what the oracle sends
\* back for the code prompt
process_code_query(query, csv_exists, reply) ==
    IF ~csv_exists
    THEN Returns(QueryResponse(query,
             <<"Error in code execution: ", "CSV file not found for session">>,
             <<>>, JObj(<<>>), "low",
             Some(<<"Code execution error: ", "CSV file not found for session">>)))
    ELSE LET code == generate_code_from_query(reply)
             ran == execute_code(code)
         IN  IF ran.raised # "" THEN Lets(ran.raised, "")
             ELSE Touching(QueryResponse(query,
                      format_code_response(query, ran.output, ran.success),
                      code_insights(ran.output, ran.success),
                      JObj([execution_success |-> ran.success,
                            code_generated |-> TRUE]),
                      get_code_confidence(query, ran.success),
                      Some(IF ran.success
                           THEN <<"Analysis performed on complete dataset">>
                           ELSE <<"Code execution failed">>)))

\* the calls _process_code_query makes, in their order: nothing after the
\* `raise ValueError` for a missing data.csv, nothing after a call that lets
\* an exception through
code_path_calls(csv_exists, reply) ==
    <<"_process_code_query">>
    \o (IF ~csv_exists THEN <<>>
        ELSE <<"generate_code_from_query", "execute_code">>
             \o (IF execute_code(generate_code_from_query(reply)).raised # ""
                 THEN <<>> ELSE <<"format_code_response">>))

\* ---- GeminiClient -----------------------------------------------------------
\* generate_response: the text, or the exception raised again
generate_response(reply) ==
    IF reply.kind = "raise" THEN Lets("Exception", "oracle error")
    ELSE IF ~HasText(reply) THEN Lets("Exception", "Empty response from Gemini model")
    ELSE Returns(reply.text)

\* the fence handling of _parse_analysis_response
IsFence(l) == l.do = "fence"
IsJsonFence(l) == l.do = "fence" /\ l.arg = "json"

\* str.find: the first of the places `hits` from `from` on, 0 for none
find(hits, from) ==
    IF \E i \in hits : i >= from
    THEN CHOOSE i \in hits : i >= from /\ \A j \in hits : j >= from => i <= j
    ELSE 0

response_clean(text) ==
    LET start == find({i \in 1..Len(text) : IsJsonFence(text[i])}, 1)
        end == find({i \in 1..Len(text) : IsFence(text[i])}, start + 1)
    IN  IF start # 0
        THEN IF end # 0 THEN SubSeq(text, start + 1, end - 1) ELSE text
        ELSE IF Len(text) >= 2 /\ IsFence(text[1]) /\ text[1].arg = ""
                /\ IsClosingFence(text[Len(text)])
        THEN SubSeq(text, 2, Len(text) - 1)
        ELSE text

\* json.loads: a JSON value and nothing else
json_loads(text) ==
    LET inked == Statements(text)
    IN  IF Len(inked) = 1 /\ inked[1].do = "json"
        THEN Returns(inked[1].arg)
        ELSE Lets("JSONDecodeError", "")

\* the raw text as one answer
Raw(text) == [i \in 1..Len(text) |-> text[i].arg]

\* _parse_analysis_response: the parsed value as it is, or the raw text as the
\* answer with confidence "medium"
parse_analysis_response(text) ==
    LET clean == response_clean(text)
        parsed == json_loads(clean)
    IN  IF parsed.raised = "" THEN parsed.value
        ELSE JObj([answer |-> JStr(Raw(clean)), insights |-> JList(<<>>),
                   data_points |-> JObj(<<>>), confidence |-> JStr("medium"),
                   limitations |-> JStr(<<"Response could not be parsed as structured data">>)])

\* every failure turned into a result object here, nothing raised
analyze_financial_data_degrading(reply) ==
    LET response == generate_response(reply)
    IN  IF response.raised # ""
        THEN Returns(JObj([answer |-> JStr(<<response.value>>),
                           insights |-> JList(<<>>), data_points |-> JObj(<<>>),
                           confidence |-> JStr("low"),
                           limitations |-> JStr(<<response.value>>)]))
        ELSE Returns(parse_analysis_response(response.value))
\* analyze_financial_data: `except Exception: raise`
analyze_financial_data(reply) ==
    LET response == generate_response(reply)
    IN  IF response.raised # "" THEN response
        ELSE Returns(parse_analysis_response(response.value))

\* ---- QueryEngine._process_ai_query ------------------------------------------
\* dict.get(key, default)
get(d, key, default) == IF key \in DOMAIN d.v THEN d.v[key] ELSE default

ai_error(query, msg) ==
    QueryResponse(query, <<"Error in AI analysis: ", msg>>, <<>>, JObj(<<>>),
                  "low", Some(<<"AI processing error: ", msg>>))

\* the calls _process_ai_query makes before it builds its QueryResponse
ai_path_calls ==
    <<"_process_ai_query", "convert_to_text_summary", "build_analysis_prompt",
      "analyze_financial_data">>

process_ai_query(query, reply) ==
    LET ai_response == analyze_financial_data(reply)
    IN  IF ai_response.raised # ""
        THEN Returns(ai_error(query, ai_response.value))
        ELSE IF ai_response.value.t # "object"
        THEN Returns(ai_error(query, "object has no attribute 'get'"))
        ELSE LET answer == get(ai_response.value, "answer",
                               JStr(<<"Unable to generate answer">>))
                 insights == get(ai_response.value, "insights", JList(<<>>))
                 data_points == get(ai_response.value, "data_points", JObj(<<>>))
                 confidence == get(ai_response.value, "confidence", JStr("medium"))
                 limitations == get(ai_response.value, "limitations",
                                    [t |-> "null", v |-> <<>>])
             IN  IF /\ answer.t = "str"
                    /\ insights.t = "list"
                    /\ data_points.t = "object"
                    /\ confidence.t = "str"
                    /\ limitations.t \in {"str", "null"}
                 THEN Touching(QueryResponse(query, answer.v, insights.v,
                          data_points, confidence.v,
                          IF limitations.t = "str" THEN Some(limitations.v)
                          ELSE None))
                 ELSE Returns(ai_error(query, "validation error for QueryResponse"))

\* the response of process_query's own `except Exception`
processing_error(query, msg) ==
    QueryResponse(query, <<"Error processing query: ", msg>>, <<>>, JObj(<<>>),
                  "low", Some(<<"Processing error: ", msg>>))

\* ---- what the oracle can send back ------------------------------------------
\* for the code prompt: programs
Programs ==
    [ prints |->
        << Line(0, "import", "pandas"),
        Line(0, "assign", "df = pd.read_csv(file_path)"),
        Line(0, "print", "2 records found") >>,
      fenced |->
        << Fence("python"), Line(0, "import", "pandas"),
        Line(0, "print", "total: 120"), Fence("") >>,
      silent |->
        << Line(0, "import", "pandas"),
        Line(0, "assign", "df = pd.read_csv(file_path)") >>,
      raises |->
        << Line(0, "import", "pandas"), Line(0, "raise", "KeyError: 'amount'") >>,
      exits |->
        << Line(0, "import", "sys"), Line(0, "print", "no rows"),
        Line(0, "sys.exit", "1") >> ]

CodeReplies ==
    <<Raises, NoText, Text(Programs.prints), Text(Programs.fenced), Text(Programs.silent),
      Text(Programs.raises), Text(Programs.exits)>>

\* for the analysis prompt
Analysis(confidence) ==
    JObj([query |-> JStr(<<"q">>),
          answer |-> JStr(<<"Spending peaks in March">>),
          insights |-> JList(<<"March is the highest month">>),
          data_points |-> JObj([march |-> JStr(<<"1200">>)]),
          confidence |-> JStr(confidence),
          limitations |-> JStr(<<"Only three months of data">>)])

Analyses ==
    [ fenced |->
        << Fence("json"), JsonLine(Analysis("high")), Fence("") >>,
      as_the_prompt |->
        << JsonLine(Analysis("high/medium/low")) >>,
      cut_short |->
        << Fence("json"), JsonLine(Analysis("high")) >>,
      prose |->
        << Line(0, "prose", "Spending rose in March.") >>,
      list |->
        << JsonLine(JList(<<"Spending rose in March.">>)) >>,
      no_fields |->
        << JsonLine(JObj(<<>>)) >> ]

AnalysisReplies ==
    <<Raises, NoText, Text(Analyses.fenced), Text(Analyses.as_the_prompt), Text(Analyses.cut_short),
      Text(Analyses.prose), Text(Analyses.list), Text(Analyses.no_fields)>>

\* for the summary prompt
SummaryReplies == <<Raises, NoText, Text(Analyses.prose)>>

\* ---- DataProcessor ---------------------------------------------------------
\* A DataFrame read from a file: the column labels, the index labels of the
\* rows and, row by row, the cells.  A cell is "nan" (missing), "num" (a
\* number), "money" (a str such as '$1,200.50') or "text" (any other str);
\* cleaning makes "datetime", "NaT", "titled" (a title-cased str) and "Nan"
\* (the str that str(nan).title() is).
isnull(cell) == cell \in {"nan", "NaT"}

\* the keywords of each role, in the order of the lists
role_keywords ==
    \* 'date', 'time', 'timestamp', 'day', 'month', 'year', 'created', 'transaction_date'
    [ date |->
        << <<"d","a","t","e">>, <<"t","i","m","e">>, <<"t","i","m","e","s","t","a","m","p">>,
           <<"d","a","y">>, <<"m","o","n","t","h">>, <<"y","e","a","r">>,
           <<"c","r","e","a","t","e","d">>,
           <<"t","r","a","n","s","a","c","t","i","o","n","_","d","a","t","e">> >>,
    \* 'amount', 'value', 'price', 'cost', 'total', 'sum', 'balance', 'expense', 'income'
      amount |->
        << <<"a","m","o","u","n","t">>, <<"v","a","l","u","e">>, <<"p","r","i","c","e">>,
           <<"c","o","s","t">>, <<"t","o","t","a","l">>, <<"s","u","m">>,
           <<"b","a","l","a","n","c","e">>, <<"e","x","p","e","n","s","e">>,
           <<"i","n","c","o","m","e">> >>,
    \* 'category', 'type', 'class', 'group', 'tag', 'label'
      category |->
        << <<"c","a","t","e","g","o","r","y">>, <<"t","y","p","e">>, <<"c","l","a","s","s">>,
           <<"g","r","o","u","p">>, <<"t","a","g">>, <<"l","a","b","e","l">> >>,
    \* 'description', 'desc', 'detail', 'note', 'memo', 'comment', 'narrative'
      description |->
        << <<"d","e","s","c","r","i","p","t","i","o","n">>, <<"d","e","s","c">>,
           <<"d","e","t","a","i","l">>, <<"n","o","t","e">>, <<"m","e","m","o">>,
           <<"c","o","m","m","e","n","t">>, <<"n","a","r","r","a","t","i","v","e">> >> ]

\* the column labels of the files that are uploaded
ColumnNames ==
    [ txn_date |-> <<"T","x","n"," ","D","a","t","e">>,
      amount_usd |-> <<"A","m","o","u","n","t"," ","(","U","S","D",")">>,
      category |-> <<"C","a","t","e","g","o","r","y">>,
      notes |-> <<"N","o","t","e","s">>,
      total |-> <<"T","o","t","a","l">>,
      date |-> <<"D","a","t","e">>,
      DATE |-> <<"D","A","T","E">>,
      payee |-> <<"P","a","y","e","e">> ]

\* what detect_financial_columns finds out of each label: columns.str.lower(),
\* and the roles of which a keyword is in the lower-cased label
said_of_column ==
    [name \in {ColumnNames[k] : k \in DOMAIN ColumnNames} |->
        [lower |-> lower(name),
         roles |-> {role \in DOMAIN role_keywords :
                       \E k \in DOMAIN role_keywords[role] :
                           contains(lower(name), role_keywords[role][k])}]]

\* pd.DataFrame with a RangeIndex
DataFrame(columns, data) ==
    [columns |-> columns,
     rows |-> [i \in 1..Len(data) |-> [index |-> i - 1, cells |-> data[i]]]]
NoDataFrame == DataFrame(<<>>, <<>>)

\* df[label]: the cells of the column, from the first row to the last
Series(frame, j) == [i \in 1..Len(frame.rows) |-> frame.rows[i].cells[j]]

\* df.columns[columns.get_loc(col)]: get_loc gives a position when the lower-cased
\* label is unique, and a slice or a mask when it is not; the result is then one
\* label (a sequence of one) or an Index of all the labels that lower to col
label_at(frame, col) ==
    SelectSeq(frame.columns, LAMBDA name : said_of_column[name].lower = col)

\* pd.api.types.is_numeric_dtype: read_csv gives a column of numbers and gaps
\* a float dtype, and object as soon as one cell is a str
is_numeric_dtype(series) == \A i \in DOMAIN series : series[i] \in {"num", "nan"}

\* _can_convert_to_numeric: astype(str), the currency signs and commas taken
\* out, pd.to_numeric(errors='raise'); 'nan' parses, a word does not
can_convert_to_numeric(series) == \A i \in DOMAIN series : series[i] # "text"

\* the test of the amount loop on the column at j.  When the lower-cased label
\* is not unique, df[col_name] is a DataFrame: it has no numeric dtype and no
\* .str, and the column is passed over.
amount_is_numeric(frame, j) ==
    /\ Len(label_at(frame, said_of_column[frame.columns[j]].lower)) = 1
    /\ is_numeric_dtype(Series(frame, j)) \/ can_convert_to_numeric(Series(frame, j))

\* detect_financial_columns: for each role the loop over the lower-cased labels
\* up to the `break`.  <<>> is None, a sequence of one label is that label.
detect_financial_columns(frame) ==
    [role \in DOMAIN role_keywords |->
        LET hits == {j \in DOMAIN frame.columns :
                        /\ role \in said_of_column[frame.columns[j]].roles
                        /\ role = "amount" => amount_is_numeric(frame, j)}
        IN  IF hits = {} THEN <<>>
            ELSE label_at(frame,
                     said_of_column[frame.columns[
                         CHOOSE j \in hits : \A k \in hits : j <= k]].lower)]

\* _clean_date_column (pd.to_datetime, errors='coerce'), _clean_amount_column
\* (pd.to_numeric, errors='coerce', after the signs are taken out) and
\* _clean_category_column (astype(str).str.strip().str.title()) on one cell
clean_cell(role, cell) ==
    CASE role = "date" -> IF cell \in {"num", "datetime"} THEN "datetime" ELSE "NaT"
      [] role = "amount" -> IF cell \in {"num", "money"} THEN "num" ELSE "nan"
      [] role = "category" -> IF cell = "nan" THEN "Nan" ELSE "titled"

\* df[col] = self._clean_..._column(df[col]), on the column named label
clean_column(frame, role, label) ==
    [frame EXCEPT !.rows =
        [i \in DOMAIN frame.rows |->
            [frame.rows[i] EXCEPT !.cells =
                [j \in DOMAIN frame.columns |->
                    IF frame.columns[j] = label
                    THEN clean_cell(role, frame.rows[i].cells[j])
                    ELSE frame.rows[i].cells[j]]]]]

\* df.dropna(how='all')
dropna(frame) ==
    [frame EXCEPT !.rows =
        SelectSeq(frame.rows, LAMBDA row :
            \E j \in DOMAIN frame.columns : ~isnull(row.cells[j]))]

\* df.head(settings.MAX_ROWS_PROCESS)
MAX_ROWS_PROCESS == 10000
head(frame, n) ==
    [frame EXCEPT !.rows = SubSeq(frame.rows, 1, IF Len(frame.rows) > n THEN n
                                                 ELSE Len(frame.rows))]

\* clean_and_preprocess, role after role: `if detected_cols[role]:` raises
\* ValueError on an Index (its truth value is ambiguous); the columns are
\* cleaned in the caller's DataFrame, which is left as far as the cleaning went.
\* (arg: the caller's DataFrame afterwards; df: the DataFrame returned)
RECURSIVE clean_from(_, _, _)
clean_from(frame, detected, roles) ==
    IF roles = <<>>
    THEN [raised |-> "", arg |-> frame, df |-> head(dropna(frame), MAX_ROWS_PROCESS)]
    ELSE LET label == detected[Head(roles)]
         IN  IF Len(label) > 1
             THEN [raised |-> "ValueError", arg |-> frame, df |-> NoDataFrame]
             ELSE clean_from(IF label = <<>> THEN frame
                             ELSE clean_column(frame, Head(roles), label[1]),
                             detected, Tail(roles))

clean_and_preprocess(frame) ==
    clean_from(frame, detect_financial_columns(frame),
               <<"date", "amount", "category">>)

\* ---- DataProcessor on the files that are uploaded ----------------------------
\* the headers of the files
Headers ==
    { <<ColumnNames.txn_date, ColumnNames.amount_usd, ColumnNames.category,
        ColumnNames.notes>>,
      <<ColumnNames.total, ColumnNames.amount_usd, ColumnNames.notes>>,
      <<ColumnNames.date, ColumnNames.DATE, ColumnNames.total>>,
      <<ColumnNames.payee, ColumnNames.amount_usd>> }

\* the cells read_financial_data makes of them
CellsRead == {"nan", "num", "money", "text"}

NotCalled == [op |-> "none", detected |-> [role \in DOMAIN role_keywords |-> <<>>],
              raised |-> "", df |-> NoDataFrame]

InitData ==
    /\ Construct
    /\ \E h \in Headers, n \in 1..MaxRows :
           \E data \in [1..n -> [1..Len(h) -> CellsRead]] :
               raw_df = DataFrame(h, data)
    /\ returned = NotCalled

\* detected_cols = data_processor.detect_financial_columns(df)
detect ==
    /\ returned.op = "none"
    /\ returned' = [NotCalled EXCEPT !.op = "detect_financial_columns",
                                     !.detected = detect_financial_columns(raw_df)]
    /\ UNCHANGED <<raw_df, histvars, procvars, filevars, lockvars, apivars>>
    /\ UNCHANGED <<now, sessions, dataframes, heap, held, disk, issued, ret>>

\* processed_df, processing_summary = data_processor.clean_and_preprocess(df)
clean ==
    /\ returned.op = "none"
    /\ LET r == clean_and_preprocess(raw_df)
       IN  /\ returned' = [op |-> "clean_and_preprocess", raised |-> r.raised,
                           detected |-> detect_financial_columns(raw_df),
                           df |-> r.df]
           /\ raw_df' = r.arg
    /\ UNCHANGED <<histvars, procvars, filevars, lockvars, apivars>>
    /\ UNCHANGED <<now, sessions, dataframes, heap, held, disk, issued, ret>>

NextData == detect \/ clean

SpecData == InitData /\ [][NextData]_vars

\* ---- the requests ---------------------------------------------------------
Queries ==
    \* 'find transaction T100008'
    [ find_transaction |->
        <<"f","i","n","d"," ","t","r","a","n","s","a","c","t","i","o","n"," ","T","1","0","0","0","0","8">>,
    \* 'summarize spending by month'
      summarize_by_month |->
        <<"s","u","m","m","a","r","i","z","e"," ","s","p","e","n","d","i","n","g"," ","b","y"," ","m","o","n","t","h">>,
    \* 'What is the total income?'
      total_income |->
        <<"W","h","a","t"," ","i","s"," ","t","h","e"," ","t","o","t","a","l"," ","i","n","c","o","m","e","?">>,
    \* 'Who was paid 5 dollars'
      paid_5 |->
        <<"W","h","o"," ","w","a","s"," ","p","a","i","d"," ","5"," ","d","o","l","l","a","r","s">>,
    \* ' a '
      too_short |->
        <<" ","a"," ">>,
    \* '<SCRIPT src=x></script>'
      script |->
        <<"<","S","C","R","I","P","T"," ","s","r","c","=","x",">","<","/","s","c","r","i","p","t",">">> ]

\* the first 35 characters of the ids uuid4 makes here
UUID_STEM ==
    <<"3", "f", "2", "b", "8", "c", "1", "e", "-", "9", "a", "4",
      "d", "-", "4", "e", "6", "f", "-", "8", "b", "7", "a", "-",
      "0", "c", "1", "d", "2", "e", "3", "f", "4", "a", "5">>

\* str(uuid.uuid4()) for the session the store numbers s
DigitOf == <<"1","2","3","4","5","6","7","8","9">>
uuid4(s) == UUID_STEM \o <<DigitOf[s]>>

\* the key a session id is in the two maps and on the disk: the session whose
\* id it is, or a key nothing is ever stored under
NoKey == 0
key_of(session_id) ==
    IF \E s \in SessionIds : uuid4(s) = session_id
    THEN CHOOSE s \in SessionIds : uuid4(s) = session_id
    ELSE NoKey

\* the session ids and the queries the clients send
NOT_A_UUID == <<"a","b","c">>
SessionIdInputs ==
    {uuid4(s) : s \in SessionIds} \cup {uuid4(1) \o <<"\n">>, NOT_A_UUID}
QueryInputs ==
    {Queries.find_transaction, Queries.summarize_by_month, Queries.total_income, Queries.paid_5,
     Queries.too_short, Queries.script}

\* ---- the endpoints ----------------------------------------------------------
\* Every handler is an `async def` that never awaits anything that suspends
\* (the oracle is called with the blocking generate_content): the event loop
\* runs one handler from its start to its end, the requests that arrived
\* meanwhile wait.
Endpoints == {"upload", "query", "insights", "session", "delete"}

\* (pc: where its handler is; df: the local `df` of process_query and of
\* generate_data_insights; route: what is_code_query said; bucket: what
\* detect_query_type said when the prompt of the narrative path was built)
\* DataProcessor.convert_to_text_summary: of the digest, the count of the
\* records and the line of the columns
convert_to_text_summary(c) == [records |-> c.nrows, columns |-> c.cols]

\* PromptTemplates.format_prompt: the template, named by its key in `templates`,
\* with {data_summary} and {query} filled in; the summary template has no {query}
format_prompt(template, data_summary, query) ==
    [template |-> template, data_summary |-> data_summary,
     query |-> IF template = "summary" THEN <<>> ELSE query]

\* (steps: the calls the engine has made for the request, in their order;
\* prompt: what generate_content is called with)
Idle == [ep |-> "none", session_id |-> <<>>, query |-> <<>>, pc |-> "idle",
         df |-> NoRef, route |-> "none", bucket |-> "none", steps |-> <<>>,
         prompt |-> format_prompt("none", convert_to_text_summary(NoData), <<>>)]
\* (reply: what the oracle sent back while the response was made)
NoReply == [kind |-> "none", text |-> <<>>]
NoResponse == [ep |-> "none", status |-> 0, raised |-> "", body |-> <<>>,
               reply |-> NoReply]
Http(ep, status, payload) == [NoResponse EXCEPT !.ep = ep, !.status = status,
                                                !.body = payload]
After(reply, response) == [response EXCEPT !.reply = reply]

StoreUnchanged ==
    UNCHANGED <<now, sessions, dataframes, heap, held, disk, issued, ret>>

\* a request reaches the server
arrive ==
    /\ backlog < MaxBacklog
    /\ backlog' = backlog + 1
    /\ UNCHANGED <<req, resp, lockvars, envvars>>
    /\ StoreUnchanged

\* the event loop, free, starts the handler of a request that waits
start(ep, session_id, query) ==
    /\ req = Idle
    /\ backlog > 0
    /\ ep = "upload" => issued # SessionIds
    /\ backlog' = backlog - 1
    /\ req' = [Idle EXCEPT !.ep = ep, !.pc = "handler",
                           !.session_id = IF ep = "upload" THEN <<>> ELSE session_id,
                           !.query = IF ep = "query" THEN query ELSE <<>>]
    /\ resp' = NoResponse
    /\ UNCHANGED <<lockvars, envvars>>
    /\ StoreUnchanged

\* what the validators and the classifier say of each input the clients send
session_id_is_valid ==
    [session_id \in SessionIdInputs |-> validate_session_id(session_id)]
said_of_query ==
    [query \in QueryInputs |-> [valid |-> validate_query_input(query),
                                code |-> is_code_query(query),
                                bucket |-> detect_query_type(query)]]

\* PromptBuilder.build_analysis_prompt: get_template_for_query, format_prompt
build_analysis_prompt(data_summary, query) ==
    format_prompt(said_of_query[query].bucket, data_summary, query)

\* GeminiClient._create_analysis_prompt: the one f-string of the client
create_analysis_prompt(data_summary, query) ==
    [template |-> "_create_analysis_prompt", data_summary |-> data_summary,
     query |-> query]

\* the prompt that reaches generate_content for the request r over the DataFrame
\* c.  On the code path it is the f-string of generate_code_from_query; on the
\* narrative path _process_ai_query builds analysis_prompt with the builder and
\* then calls analyze_financial_data(data_text_summary, query), which makes a
\* prompt of its own; the insights are asked with build_summary_prompt.
oracle_prompt(r, route, c) ==
    IF route = "code"
    THEN [template |-> "code_prompt", data_summary |-> convert_to_text_summary(c),
          query |-> r.query]
    ELSE IF route = "ai"
    THEN create_analysis_prompt(convert_to_text_summary(c), r.query)
    ELSE format_prompt("summary", convert_to_text_summary(c), <<>>)

\* HTTPException(status_code=400): the validations a handler begins with
rejects(r) ==
    \/ r.ep \in {"query", "insights", "session", "delete"}
           /\ ~session_id_is_valid[r.session_id]
    \/ r.ep = "query" /\ ~said_of_query[r.query].valid

\* upload_financial_data, for a file that is valid: create_session
upload ==
    /\ req.pc = "handler" /\ req.ep = "upload"
    /\ \E s \in SessionIds, c \in Datasets, o \in SaveOutcomes :
           create_session(s, c, o)
    /\ req' = [req EXCEPT !.pc = "return", !.df = CallerRef(held)]
    /\ resp' = Http("upload", 200, uuid4(ret'.id))
    /\ UNCHANGED <<backlog, lockvars, envvars>>

\* query_financial_data and get_automatic_insights up to the call of the engine
enter(ep) ==
    /\ req.pc = "handler" /\ req.ep = ep
    /\ IF rejects(req)
       THEN /\ resp' = Http(ep, 400, <<>>)
            /\ req' = Idle
            /\ StoreUnchanged
       ELSE /\ get_session_data(key_of(req.session_id))
            /\ IF ret'.found
               THEN req' = [req EXCEPT !.pc = "engine"] /\ resp' = resp
               ELSE req' = Idle /\ resp' = Http(ep, 404, <<>>)
    /\ UNCHANGED <<backlog, lockvars, envvars>>

\* get_session_info
get_session_info ==
    /\ req.pc = "handler" /\ req.ep = "session"
    /\ IF rejects(req)
       THEN resp' = Http("session", 400, <<>>) /\ StoreUnchanged
       ELSE /\ get_session_data(key_of(req.session_id))
            /\ resp' = IF ret'.found
                       THEN Http("session", 200,
                                 [created_at |-> ret'.created_at,
                                  last_accessed |-> ret'.last_accessed])
                       ELSE Http("session", 404, <<>>)
    /\ req' = Idle
    /\ UNCHANGED <<backlog, lockvars, envvars>>

\* the endpoint delete_session
delete_session_endpoint ==
    /\ req.pc = "handler" /\ req.ep = "delete"
    /\ IF rejects(req)
       THEN resp' = Http("delete", 400, <<>>) /\ StoreUnchanged
       ELSE /\ delete_session(key_of(req.session_id))
            /\ resp' = Http("delete", IF ret'.found THEN 200 ELSE 404, <<>>)
    /\ req' = Idle
    /\ UNCHANGED <<backlog, lockvars, envvars>>

\* ---- QueryEngine.process_query, QueryEngine.generate_data_insights ----------
\* the dict generate_data_insights returns
Insights(ai_summary) == [error |-> None, ai_summary |-> ai_summary]
InsightsError(msg) == [error |-> Some(<<msg>>), ai_summary |-> <<>>]

\* what the `except Exception` of the engine makes of a ValueError
engine_error(r, msg) ==
    IF r.ep = "query" THEN processing_error(r.query, msg) ELSE InsightsError(msg)

\* session_cache.get_session_data(session_id), the first call of both
engine_session ==
    /\ req.pc = "engine"
    /\ get_session_data(key_of(req.session_id))
    /\ IF ret'.found
       THEN /\ req' = [req EXCEPT !.pc = "get_dataframe",
                                  !.steps = Append(@, "get_session_data")]
            /\ resp' = resp
       ELSE /\ req' = Idle
            /\ resp' = Http(req.ep, 200, engine_error(req, "No data found for session"))
    /\ UNCHANGED <<backlog, lockvars, envvars>>

\* csv_file_path.exists()
csv_exists(k) == k \in DOMAIN disk /\ disk[k].csv # NoCsv

\* session_cache.get_dataframe(session_id); then is_code_query; then, on the
\* code path, the test that data.csv is there, on the narrative path the choice of the
\* template of the prompt; then the call of the oracle begins
engine_dataframe ==
    /\ req.pc = "get_dataframe"
    /\ get_dataframe(key_of(req.session_id))
    /\ IF ~ret'.found
       THEN /\ req' = Idle
            /\ resp' = Http(req.ep, 200,
                            engine_error(req, "No DataFrame found for session"))
       ELSE LET route == IF req.ep # "query" THEN "none"
                         ELSE IF said_of_query[req.query].code THEN "code" ELSE "ai"
                steps == req.steps \o <<"get_dataframe">>
                         \o (IF req.ep = "query" THEN <<"is_code_query">> ELSE <<>>)
            IN  IF route = "code" /\ ~csv_exists(key_of(req.session_id))
                THEN /\ req' = [req EXCEPT !.pc = "return", !.df = ret'.ref,
                                           !.route = route,
                                           !.steps = steps \o code_path_calls(FALSE, NoText)]
                     /\ resp' = Http("query", 200,
                            process_code_query(req.query, FALSE, NoText).value)
                ELSE /\ req' = [req EXCEPT !.pc = "oracle", !.df = ret'.ref,
                                           !.route = route, !.steps = steps,
                                           !.prompt = oracle_prompt(req, route, ret'.content),
                                           !.bucket = IF route = "ai"
                                                      THEN said_of_query[req.query].bucket
                                                      ELSE "none"]
                     /\ resp' = resp
    /\ UNCHANGED <<backlog, lockvars, envvars>>

\* an exception no handler catches goes up through the handler to the event loop
raises(ep, exc, reply) ==
    /\ req' = [req EXCEPT !.pc = "raised",
                          !.steps = @ \o code_path_calls(TRUE, reply)]
    /\ resp' = After(reply, [NoResponse EXCEPT !.ep = ep, !.raised = exc])
    /\ StoreUnchanged
    /\ UNCHANGED <<backlog, lockvars, histvars, datavars, filevars>>

\* the process ends on that exception; it is started again over the same data
\* directory with a sys.stdout of its own, the requests that waited are lost
dies ==
    /\ req.pc = "raised"
    /\ Restart
    /\ req' = Idle
    /\ backlog' = 0
    /\ stdout' = "sys.__stdout__"
    /\ UNCHANGED <<resp, lockvars, histvars, datavars, filevars>>

\* sys.stdout after the code path has gone through execute_code
stdout_after(reply) ==
    IF execute_code(generate_code_from_query(reply)).stdout = "old_stdout"
    THEN stdout ELSE "StringIO"

\* what the oracle can send back to the request r
OracleReplies(r) ==
    IF r.route = "code" THEN CodeReplies
    ELSE IF r.route = "ai" THEN AnalysisReplies
    ELSE SummaryReplies

\* generate_content returns or raises, and process_query goes on to its end
query_oracle_returns(reply) ==
    /\ req.pc = "oracle" /\ req.ep = "query"
    /\ LET r == IF req.route = "code"
                THEN process_code_query(req.query, TRUE, reply)
                ELSE process_ai_query(req.query, reply)
       IN  /\ stdout' = IF req.route = "code" THEN stdout_after(reply)
                         ELSE stdout
           /\ IF ~caught_by_except_Exception(r.raised) /\ r.raised # ""
              THEN raises("query", r.raised, reply)
              ELSE /\ IF r.access
                      THEN update_session_access(key_of(req.session_id))
                      ELSE StoreUnchanged
                   /\ req' = [req EXCEPT
                                 !.pc = "return",
                                 !.steps = @ \o IF req.route = "code"
                                                THEN code_path_calls(TRUE, reply)
                                                ELSE ai_path_calls]
                   /\ resp' = After(reply, Http("query", 200, r.value))
                   /\ UNCHANGED <<backlog, lockvars, histvars, datavars, filevars>>

\* generate_response returns or raises, and generate_data_insights goes on
insights_oracle_returns(reply) ==
    /\ req.pc = "oracle" /\ req.ep = "insights"
    /\ LET ai_summary == generate_response(reply)
       IN  resp' = After(reply, Http("insights", 200,
                                     IF ai_summary.raised # ""
                                     THEN InsightsError(ai_summary.value)
                                     ELSE Insights(Raw(ai_summary.value))))
    /\ req' = [req EXCEPT !.pc = "return"]
    /\ UNCHANGED <<backlog, lockvars, envvars>>
    /\ StoreUnchanged

\* the handler returns: its DataFrame goes
handler_returns ==
    /\ req.pc = "return"
    /\ Drop(req.df)
    /\ req' = Idle
    /\ UNCHANGED <<resp, backlog, lockvars, envvars>>

NextApi ==
    \/ arrive
    \/ \E session_id \in SessionIdInputs, query \in QueryInputs :
           start("query", session_id, query)
    \/ \E ep \in Endpoints \ {"query"}, session_id \in SessionIdInputs :
           start(ep, session_id, <<>>)
    \/ upload
    \/ \E ep \in {"query", "insights"} : enter(ep)
    \/ get_session_info
    \/ delete_session_endpoint
    \/ engine_session
    \/ engine_dataframe
    \/ \E i \in DOMAIN OracleReplies(req) :
           query_oracle_returns(OracleReplies(req)[i])
    \/ \E i \in DOMAIN OracleReplies(req) :
           insights_oracle_returns(OracleReplies(req)[i])
    \/ handler_returns
    \/ dies

SpecApi == Init /\ [][NextApi]_vars

\* ---- what the claims speak of -------------------------------------------
\* the id is known to a tier
Known(s) == s \in DOMAIN sessions \/ s \in DOMAIN dataframes \/ s \in DOMAIN disk

\* the session record a lookup of s starts from: memory first, then disk
RecordOf(s) == IF s \in DOMAIN sessions THEN sessions[s] ELSE load_session_data(disk, s)

\* the last-accessed time of s is older than now - TTL
Stale(s) == RecordOf(s) # NoSession /\ is_session_expired(RecordOf(s), now)

IsRead(r) == r.op \in {"get_session_data", "get_dataframe"}

\* C1: a session whose last-accessed time is older than now - TTL is never
\* returned by get_session_data or get_dataframe, whatever calls (a sweep
\* included) came before.
C1_ExpiredUnreachable ==
    [][(IsRead(ret') /\ ret'.found) => ~Stale(ret'.id)]_vars

\* C2: a session id is in the dataset map only if it is in the session map.
C2_DatasetOnlyWithSession == DOMAIN dataframes \subseteq DOMAIN sessions

\* C3: every successful read, through get_session_data and through
\* get_dataframe, leaves the session's last_accessed at the current time.
C3_EveryReadRefreshes ==
    [][(IsRead(ret') /\ ret'.found) =>
          /\ ret'.id \in DOMAIN sessions'
          /\ sessions'[ret'.id].last_accessed = now']_vars

\* C4: delete_session(id) leaves the id in neither memory map nor on disk, and
\* returns true exactly when the id was in one of them.
C4_DeleteRemovesBothTiers ==
    [][ret'.op = "delete_session" =>
          /\ ret'.id \notin DOMAIN sessions'
          /\ ret'.id \notin DOMAIN dataframes'
          /\ ret'.id \notin DOMAIN disk'
          /\ ret'.found <=> Known(ret'.id)]_vars

\* C5: get_session_data right after create_session finds the session; every
\* session get_session_data returns has last_accessed >= created_at and a
\* last_accessed no smaller than the one the session had before the call.
C5_LastAccessedMonotone ==
    [][ret'.op = "get_session_data" =>
          /\ (ret.op = "create_session" /\ ret.id = ret'.id) => ret'.found
          /\ ret'.found =>
                /\ ret'.last_accessed >= ret'.created_at
                /\ RecordOf(ret'.id) # NoSession
                /\ ret'.last_accessed >= RecordOf(ret'.id).last_accessed
                /\ sessions'[ret'.id].last_accessed = ret'.last_accessed]_vars

C5_Witness ==
    /\ ret.op = "get_session_data"
    /\ ret.found
    /\ ret.last_accessed > ret.created_at

\* C6: a DataFrame get_dataframe returns is not the stored object, and a
\* caller changing a DataFrame it holds (one it passed to create_session or
\* one it got from get_dataframe) changes no stored DataFrame.
C6_CopyOnRead ==
    [][/\ (ret'.op = "get_dataframe" /\ ret'.found) =>
              /\ ret'.ref \notin Range(dataframes')
              /\ ret'.content = heap'[dataframes'[ret'.id]]
       /\ ret'.op = "mutate" =>
              \A s \in DOMAIN dataframes :
                  /\ s \in DOMAIN dataframes'
                  /\ heap'[dataframes'[s]] = heap[dataframes[s]]]_vars

C6_Witness ==
    /\ ret.op = "mutate"
    /\ \E s \in DOMAIN dataframes : heap[dataframes[s]] # heap[ret.ref]

C8_UnknownNotFound ==
    [][(ret'.op = "get_session_data" /\ ~Known(ret'.id)) => ~ret'.found]_vars

C8_Witness ==
    /\ ret.op = "get_session_data"
    /\ ~ret.found
    /\ ret.id \notin issued
    /\ issued # {}

\* C9: create_session returns an id and fills both memory maps however the
\* durable write went; from then on, while the session is not expired and not
\* deleted, both reads succeed from memory and both entries stay.
C9_MemoryAuthoritative ==
    [][/\ ret'.op = "create_session" =>
              /\ ret'.found
              /\ ret'.id \in DOMAIN sessions'
              /\ ret'.id \in DOMAIN dataframes'
       /\ \A s \in DOMAIN sessions \cap DOMAIN dataframes :
              ~is_session_expired(sessions[s], now) =>
                  /\ (IsRead(ret') /\ ret'.id = s) =>
                         (ret'.found /\ ret'.src = "cache")
                  /\ \/ s \in DOMAIN sessions' /\ s \in DOMAIN dataframes'
                     \/ ret'.op = "delete_session" /\ ret'.id = s]_vars

\* read from memory although nothing of the session reached the disk
C9_Witness ==
    /\ ret.op = "get_dataframe"
    /\ ret.found
    /\ ret.id \notin DOMAIN disk
    /\ now > 0

\* C10: a session directory with a metadata record and no data file is
\* not-found: get_session_data served from it does not return a session.
C10_MetadataOnlyNotFound ==
    [][(/\ ret'.op = "get_session_data"
        /\ ret'.id \notin DOMAIN sessions
        /\ load_session_data(disk, ret'.id) # NoSession
        /\ load_dataframe(disk, ret'.id) = NoData) => ~ret'.found]_vars

\* the thread is inside the body of a store method
InBody(t) == calls[t].at = "body"

\* C11: a thread inside the body of a method that reads or writes the session
\* map or the dataset map holds the store's lock, so no two threads are inside
\* such bodies at the same time.
C11_OneLockForBothMaps ==
    /\ \A t \in Threads : InBody(t) => lock = t
    /\ \A t, u \in Threads : (InBody(t) /\ InBody(u)) => t = u

\* one thread is in a body while another waits at the lock for a read
C11_Witness ==
    \E t, u \in Threads :
        /\ calls[t] = [op |-> "delete_session", at |-> "body"]
        /\ calls[u] = [op |-> "get_dataframe", at |-> "enter"]
        /\ DOMAIN dataframes # {}

\* ---- the answers to queries --------------------------------------------------
\* the oracle has just answered the request the event loop runs, on the path
\* `route`, and the handler has gone on to its response or to its end
Answers(route) ==
    /\ req.pc = "oracle" /\ req.route = route
    /\ resp'.reply # NoReply

\* the reply is a program, and exec of it ends in an exception
Raising(reply) == HasText(reply) /\ exec(strip_fence(reply.text)).end # "done"

couldnt_process == "I couldn't process your query due to an error: "

HasPhrase(answer, phrase) == \E i \in 1..Len(answer) : answer[i] = phrase

\* process_query returned a QueryResponse and the endpoint sent it
IsQueryResult(response) == response.raised = "" /\ response.status = 200

\* C12: when the program the oracle wrote raises while it is executed, the
\* caller of process_query gets no exception but a Query Result of confidence
\* "low" whose answer holds the couldn't-process message.
C12_RaisingProgramIsLowConfidence ==
    [][(Answers("code") /\ Raising(resp'.reply))
          => /\ IsQueryResult(resp')
             /\ resp'.body.confidence = "low"
             /\ HasPhrase(resp'.body.answer, couldnt_process)]_vars

\* the oracle call itself errors, or its response has no text
OracleFails(reply) == ~HasText(reply)
\* the text of the oracle is not the structured object
ParseFails(reply) ==
    HasText(reply) /\ json_loads(response_clean(reply.text)).raised # ""
\* a processing error on the path `route`
Fails(route, reply) ==
    \/ OracleFails(reply)
    \/ route = "code" /\ Raising(reply)
    \/ route = "ai" /\ ParseFails(reply)

\* C13: whatever fails while a query is answered (the parse of the oracle's
\* text, the oracle call, the execution of the program), process_query still
\* returns a Query Result, of confidence "low" and with limitations that are
\* not empty.
C13_FailuresDegradeToLow ==
    [][\A route \in {"code", "ai"} :
          (Answers(route) /\ Fails(route, resp'.reply))
             => /\ IsQueryResult(resp')
                /\ resp'.body.confidence = "low"
                /\ resp'.body.limitations.some
                /\ resp'.body.limitations.text # <<>>]_vars

\* the result object is the raw text as the answer, with no insights and
\* confidence "medium"
IsRawAnswer(value, reply) ==
    /\ value.t = "object"
    /\ value.v.answer = JStr(Raw(response_clean(reply.text)))
    /\ value.v.insights = JList(<<>>)
    /\ value.v.confidence.v = "medium"

\* C14 (as stated): analyze_financial_data never raises; an oracle call that
\* errors or gives no text yields a result object whose answer is the error
\* and whose confidence is "low", a text that cannot be parsed yields the raw
\* text as the answer with empty insights and confidence "medium".
C14_AnalysisNeverRaises ==
    [][Answers("ai") =>
          LET r == analyze_financial_data(resp'.reply)
          IN  /\ r.raised = ""
              /\ OracleFails(resp'.reply) =>
                     /\ r.value.t = "object"
                     /\ r.value.v.confidence.v = "low"
              /\ ParseFails(resp'.reply) => IsRawAnswer(r.value, resp'.reply)]_vars

\* C14 (amended): when the oracle call errors or gives no text,
\* analyze_financial_data raises and it is _process_ai_query, its caller, that
\* returns the Query Result whose answer is the error and whose confidence is
\* "low"; a text that cannot be parsed yields, from analyze_financial_data
\* itself, the raw text as the answer with empty insights and confidence
\* "medium".
C14_AnalysisRaisesCallerDegrades ==
    [][Answers("ai") =>
          LET r == analyze_financial_data(resp'.reply)
          IN  /\ OracleFails(resp'.reply) =>
                     /\ r.raised = "Exception"
                     /\ IsQueryResult(resp')
                     /\ resp'.body.answer = <<"Error in AI analysis: ", r.value>>
                     /\ resp'.body.confidence = "low"
              /\ ParseFails(resp'.reply) =>
                     /\ r.raised = ""
                     /\ IsRawAnswer(r.value, resp'.reply)]_vars

\* a narrative query was answered after the oracle gave no text
C14_Witness ==
    /\ resp.ep = "query" /\ resp.status = 200
    /\ resp.reply = NoText
    /\ resp.body.answer = <<"Error in AI analysis: ",
                            "Empty response from Gemini model">>
    /\ resp.body.confidence = "low"

\* the confidence labels of a Query Result
ConfidenceLabels == {"high", "medium", "low"}

\* C15: every Query Result process_query returns, on either path and whatever
\* the oracle sent back, has a confidence in {high, medium, low}.
C15_ConfidenceIsALabel ==
    (resp.ep = "query" /\ IsQueryResult(resp))
        => resp.body.confidence \in ConfidenceLabels

\* the query has one of the words specific, exact, find, search
ExactMatchLanguage(query) ==
    \E word \in {<<"s","p","e","c","i","f","i","c">>, <<"e","x","a","c","t">>,
                 <<"f","i","n","d">>, <<"s","e","a","r","c","h">>} :
        contains(lower(query), word)

\* the program run for the reply (the oracle's, or the fallback) ended well
RunSucceeds(reply) == exec(strip_fence(generate_code_from_query(reply))).end = "done"

\* C16: on the code path the confidence of the result is "low" when the
\* execution failed, "high" when it succeeded and the query has exact-match
\* language, "medium" in every other case.
C16_CodeConfidence ==
    [][(Answers("code") /\ IsQueryResult(resp'))
          => resp'.body.confidence =
                 IF ~RunSucceeds(resp'.reply) THEN "low"
                 ELSE IF ExactMatchLanguage(req.query) THEN "high"
                 ELSE "medium"]_vars

\* 'Who was paid 5 dollars', a query without exact-match language, was run
\* with success
C16_Witness ==
    /\ resp.ep = "query" /\ IsQueryResult(resp)
    /\ resp.reply = Text(Programs.prints)
    /\ resp.body.query = Queries.paid_5
    /\ resp.body.data_points.v.execution_success
    /\ resp.body.confidence = "medium"

\* ---- the classifiers ----------------------------------------------------------
\* process_query has just chosen the path of the query the event loop runs
Routes == req.pc = "get_dataframe" /\ req.ep = "query" /\ req'.route # "none"

\* C17 (as stated): 'find transaction T100008' goes to code execution, and
\* 'summarize spending by month' goes to the narrative path, where the second
\* classifier puts it in the bucket "time".
C17_LookupToCodeSummaryToNarrative ==
    [][Routes =>
          /\ req.query = Queries.find_transaction => req'.route = "code"
          /\ req.query = Queries.summarize_by_month =>
                 req'.route = "ai" /\ req'.bucket = "time"]_vars

\* C17 (amended): 'find transaction T100008' goes to code execution, and so
\* does 'summarize spending by month', for 'spending by' is one of the lookup
\* indicators; the second classifier, which the code path never asks, has the
\* bucket "time" for it.
C17_BothToCode ==
    [][Routes =>
          /\ req.query = Queries.find_transaction => req'.route = "code"
          /\ req.query = Queries.summarize_by_month =>
                 /\ req'.route = "code" /\ req'.bucket = "none"
                 /\ detect_query_type(req.query) = "time"]_vars

\* 'summarize spending by month' waits for the program of the oracle
C17_Witness ==
    /\ req.pc = "oracle"
    /\ req.query = Queries.summarize_by_month
    /\ req.route = "code"

\* ---- the fallback program ---------------------------------------------------
\* C18: when the oracle raises or gives no text while the program is
\* synthesized, the fallback program is run in its place and the answer shows
\* the preview of the data and the request to clarify the query; the answer
\* is never empty.
C18_FallbackShowsPreview ==
    [][(Answers("code") /\ OracleFails(resp'.reply))
          => /\ IsQueryResult(resp')
             /\ resp'.body.answer # <<>>
             /\ HasPhrase(resp'.body.answer, "Showing a preview of the data:")
             /\ HasPhrase(resp'.body.answer, "Please clarify your request")]_vars

\* ---- the validations of the endpoints -----------------------------------------
\* 8-4-4-4-12 hexadecimal digits with hyphens between the groups
UuidShaped(session_id) ==
    /\ Len(session_id) = 36
    /\ \A i \in 1..36 :
           IF i \in {9, 14, 19, 24} THEN session_id[i] = "-"
           ELSE lower_char(session_id[i]) \in
                    {"0","1","2","3","4","5","6","7","8","9","a","b","c","d","e","f"}

\* the request the event loop has started does not pass the validations
BadRequest ==
    /\ req.pc = "handler"
    /\ req.ep \in {"query", "insights", "session", "delete"}
    /\ \/ ~UuidShaped(req.session_id)
       \/ req.ep = "query" /\ ~said_of_query[req.query].valid

\* C19: a request to the query, insights, session-info or delete endpoint whose
\* session id is not UUID-shaped, or whose query fails the validation, is
\* rejected as the client's fault before the session store is called: both
\* tiers, and with them every last_accessed, stay as they are.
C19_BadRequestRejectedBeforeLookup ==
    [][(BadRequest /\ req' # req)
          => /\ resp'.status = 400
             /\ UNCHANGED <<sessions, dataframes, disk, ret>>]_vars

\* ---- the event loop -----------------------------------------------------------
\* the handler of some request that waits can be started
CanStartAnother ==
    ENABLED (\E ep \in Endpoints, session_id \in SessionIdInputs :
                 start(ep, session_id, <<>>))

\* C20: while one request waits for its oracle call, the handlers of the
\* other requests can still run: a request that has arrived can be started.
C20_OracleHoldsOnlyItsRequest ==
    (req.pc = "oracle" /\ backlog > 0) => CanStartAnother

\* ---- the session directory ----------------------------------------------
\* C21: after a create_session whose durable write succeeded, the directory of
\* the session holds session_info.json, data.csv, data.pkl and the original
\* uploaded file (the file the code path is meant to load).
C21_DirectoryHoldsOriginal ==
    [][(ret'.op = "create_session" /\ ret'.saved)
        => /\ ret'.id \in DOMAIN disk'
           /\ disk'[ret'.id].meta # NoSession
           /\ disk'[ret'.id].csv # NoCsv
           /\ disk'[ret'.id].pkl # NoData
           /\ disk'[ret'.id].original # NoCsv]_vars

\* ---- the two tiers and the sliding window ---------------------------------
\* the session is gone from memory, its directory has a metadata record, and
\* its latest successful get_session_data was less than the TTL ago
LostWithRecentRead(s) ==
    /\ s \notin DOMAIN sessions
    /\ load_session_data(disk, s) # NoSession
    /\ s \in DOMAIN last_read
    /\ now - last_read[s] < CACHE_TTL

\* C23: a get_session_data of a session that is missing from memory, present
\* on disk and was read less than the TTL ago returns the session and puts it
\* back in memory: the reads made before the loss count.
C23_ReloadCountsEarlierReads ==
    [][\A s \in SessionIds :
          (LostWithRecentRead(s) /\ ret'.op = "get_session_data" /\ ret'.id = s)
          => (ret'.found /\ s \in DOMAIN sessions')]_vars

\* ---- the sweep ----------------------------------------------------------
\* C24: cleanup_expired_sessions removes from both memory maps exactly the
\* sessions with now - last_accessed > TTL (at exactly the TTL a session stays)
\* and leaves every other entry of the two maps, the stored DataFrames and the
\* directories as they were.
C24_SweepRemovesExactlyExpired ==
    [][ret'.op = "cleanup_expired_sessions" =>
          LET gone == {s \in DOMAIN sessions :
                          now - sessions[s].last_accessed > CACHE_TTL}
          IN  /\ DOMAIN sessions' = DOMAIN sessions \ gone
              /\ DOMAIN dataframes' = DOMAIN dataframes \ gone
              /\ \A s \in DOMAIN sessions' : sessions'[s] = sessions[s]
              /\ \A s \in DOMAIN dataframes' :
                     /\ dataframes'[s] = dataframes[s]
                     /\ heap'[dataframes'[s]] = heap[dataframes[s]]
              /\ disk' = disk]_vars

\* a sweep has run; a session at exactly the TTL is still in memory and another,
\* past the TTL, is in neither map while its directory is there
C24_Witness ==
    /\ ret.op = "cleanup_expired_sessions"
    /\ \E s \in DOMAIN sessions :
           /\ now - sessions[s].last_accessed = CACHE_TTL
           /\ s \in DOMAIN dataframes
    /\ \E s \in DOMAIN disk :
           /\ s \notin DOMAIN sessions /\ s \notin DOMAIN dataframes
           /\ disk[s].meta # NoSession
           /\ now - disk[s].meta.last_accessed > CACHE_TTL

\* ---- one session at a time ------------------------------------------------
\* the operations of the store that take a session id
OnOneSession == {"create_session", "get_session_data", "get_dataframe",
                 "update_session_access", "delete_session"}

\* what the two tiers hold of the session s: its record, its DataFrame (the
\* reference and the content) and its directory
Held(S, D, h, d, s) ==
    [info |-> IF s \in DOMAIN S THEN S[s] ELSE NoSession,
     ref |-> IF s \in DOMAIN D THEN D[s] ELSE NoRef,
     content |-> IF s \in DOMAIN D THEN h[D[s]] ELSE NoData,
     dir |-> IF s \in DOMAIN d THEN <<d[s]>> ELSE <<>>]

\* C30: create_session, get_session_data, get_dataframe, update_session_access
\* and delete_session applied to one session id change neither the memory
\* entries nor the directory of any other session id.
C30_OtherSessionsUntouched ==
    [][ret'.op \in OnOneSession =>
          \A s \in SessionIds \ {ret'.id} :
              Held(sessions', dataframes', heap', disk', s)
                  = Held(sessions, dataframes, heap, disk, s)]_vars

\* a session was deleted from both tiers while another one is in both maps
\* and has its directory
C30_Witness ==
    /\ ret.op = "delete_session" /\ ret.found
    /\ ret.id \notin DOMAIN sessions /\ ret.id \notin DOMAIN disk
    /\ \E s \in SessionIds \ {ret.id} :
           s \in DOMAIN sessions /\ s \in DOMAIN dataframes /\ s \in DOMAIN disk

\* ---- the standard output ------------------------------------------------
\* C29: when execute_code is left, however the executed program ended,
\* sys.stdout is the stream it was before the call.
C29_StdoutRestored ==
    [][(req.pc = "oracle" /\ req.route = "code" /\ req'.pc # "oracle")
          => stdout' = stdout]_vars

\* ---- the two paths ------------------------------------------------------
\* process_query is over (it returned, or an exception went through it) after
\* both lookups succeeded
PathTaken ==
    /\ req.ep = "query" /\ req.pc \in {"get_dataframe", "oracle"}
    /\ req'.pc \in {"return", "raised"}

CodePath == <<"_process_code_query", "generate_code_from_query", "execute_code",
              "format_code_response">>

\* C25: after get_session_data and get_dataframe succeeded, is_code_query is
\* asked once and the query goes down exactly one path, the one it names; on the
\* code path generate_code_from_query, execute_code and format_code_response
\* are each called once, in that order.
C25_OnePathInOrder ==
    [][PathTaken =>
          req'.steps = <<"get_session_data", "get_dataframe", "is_code_query">>
                       \o (IF is_code_query(req.query) THEN CodePath
                           ELSE ai_path_calls)]_vars

\* ---- the prompt of the narrative path -------------------------------------
\* the call of the oracle begins for a query on the narrative path
AsksAnalysis == req.pc = "get_dataframe" /\ req'.pc = "oracle" /\ req'.route = "ai"

\* C26: on the narrative path the prompt sent to the oracle is the template of
\* the query's bucket with the digest and the query filled in, so that queries
\* of different buckets are sent with different templates.
C26_PromptFromBucketTemplate ==
    [][AsksAnalysis =>
          /\ req'.prompt.template = detect_query_type(req.query)
          /\ req'.prompt = build_analysis_prompt(
                               convert_to_text_summary(ret'.content), req.query)]_vars

\* ---- the roles of the columns ------------------------------------------------
\* the first label, in header order, whose lower-cased form contains a keyword
\* of the role and, for the amount, whose column is numeric or convertible
FirstMatch(frame, role) ==
    LET named == {j \in DOMAIN frame.columns :
                     /\ \E k \in DOMAIN role_keywords[role] :
                            contains(lower(frame.columns[j]), role_keywords[role][k])
                     /\ role = "amount" =>
                            (is_numeric_dtype(Series(frame, j))
                                \/ can_convert_to_numeric(Series(frame, j)))}
    IN  IF named = {} THEN <<>>
        ELSE <<frame.columns[CHOOSE j \in named : \A k \in named : j <= k]>>

\* C22: detect_financial_columns gives each role the first column in header
\* order whose lower-cased name contains a keyword of the role, the amount
\* passing over columns that are neither numeric nor convertible; the headers
\* Txn Date, Amount (USD), Category, Notes with numeric amounts give these four.
C22_FirstKeywordColumn ==
    [][returned'.op = "detect_financial_columns" =>
          \A role \in DOMAIN role_keywords :
              returned'.detected[role] = FirstMatch(raw_df, role)]_vars

\* ---- the rows that are all null ---------------------------------------------
\* C27: the DataFrame clean_and_preprocess returns holds no row that was null
\* in every column of the DataFrame it was given, whichever roles were detected,
\* a category column included.
C27_AllNullRowsDropped ==
    [][(returned'.op = "clean_and_preprocess" /\ returned'.raised = "") =>
          \A k \in DOMAIN returned'.df.rows, i \in DOMAIN raw_df.rows :
              raw_df.rows[i].index = returned'.df.rows[k].index =>
                  \E j \in DOMAIN raw_df.columns : ~isnull(raw_df.rows[i].cells[j])]_vars

\* ---- upload_financial_data, with the staging copy of the file ----------------
\* settings.MAX_FILE_SIZE and settings.ALLOWED_EXTENSIONS
MAX_FILE_SIZE == 10 * 1024 * 1024
ALLOWED_EXTENSIONS == {".csv", ".xlsx", ".xls"}

\* the names and the sizes of the files the clients send
Filenames == {"", "notes.txt", "BANK.CSV"}
FileSizes == {0, 1, MAX_FILE_SIZE + 1}

\* Path(filename).suffix.lower()
suffix_lower ==
    [filename \in Filenames |->
        CASE filename = "BANK.CSV" -> ".csv"
          [] filename = "notes.txt" -> ".txt"
          [] OTHER -> ""]

\* DataValidator.validate_file_upload: the checks in their order; a MIME type
\* that does not match is logged and passes
validate_file_upload(filename, file_size) ==
    /\ filename # ""
    /\ suffix_lower[filename] \in ALLOWED_EXTENSIONS
    /\ file_size > 0
    /\ file_size <= MAX_FILE_SIZE

\* what read_financial_data makes of the bytes of the file: it raises, or gives
\* a DataFrame: of a header alone, of one row of numbers under the header with
\* the four roles or under the header with Date and DATE, of one row of gaps
FilesRead ==
    {[readable |-> FALSE, df |-> NoDataFrame]}
        \cup {[readable |-> TRUE, df |-> DataFrame(h, <<>>)] :
                  h \in {<<ColumnNames.payee, ColumnNames.amount_usd>>}}
        \cup {[readable |-> TRUE, df |-> DataFrame(h, <<[j \in 1..Len(h) |-> "num"]>>)] :
                  h \in {<<ColumnNames.txn_date, ColumnNames.amount_usd,
                            ColumnNames.category, ColumnNames.notes>>,
                          <<ColumnNames.date, ColumnNames.DATE, ColumnNames.total>>}}
        \cup {[readable |-> TRUE, df |-> DataFrame(h, <<[j \in 1..Len(h) |-> "nan"]>>)] :
                  h \in {<<ColumnNames.payee, ColumnNames.amount_usd>>}}

\* df.empty
empty(frame) == Len(frame.columns) = 0 \/ Len(frame.rows) = 0

\* DataValidator.validate_dataframe_structure: an empty DataFrame is refused,
\* everything else it looks at becomes a warning
validate_dataframe_structure(frame) == ~empty(frame)

\* generate_data_summary: detect_financial_columns again, then
\* `if detected_cols[role] and ...` for the date, the amount and the category,
\* which raises on an Index; the exception is logged and raised again
generate_data_summary(frame) ==
    LET detected_cols == detect_financial_columns(frame)
    IN  IF \E role \in {"date", "amount", "category"} : Len(detected_cols[role]) > 1
        THEN [raised |-> "ValueError", total_rows |-> 0, columns |-> <<>>]
        ELSE [raised |-> "", total_rows |-> Len(frame.rows),
              columns |-> frame.columns]

\* the DataFrame as the store keeps it: the count of its rows and its labels
Stored(frame) ==
    [nrows |-> Len(frame.rows),
     cols |-> {CHOOSE k \in DOMAIN ColumnNames : ColumnNames[k] = frame.columns[j] :
                  j \in DOMAIN frame.columns},
     typed |-> TRUE]

\* upload_financial_data from read_financial_data to generate_data_summary:
\* the status the request ends with, the call that failed, the DataFrame made
process_upload(content) ==
    IF ~content.readable
    THEN [status |-> 500, failed |-> "read_financial_data", df |-> NoDataFrame]
    ELSE IF ~validate_dataframe_structure(content.df)
    THEN [status |-> 400, failed |-> "validate_dataframe_structure", df |-> NoDataFrame]
    ELSE LET cleaned == clean_and_preprocess(content.df)
         IN  IF cleaned.raised # ""
             THEN [status |-> 500, failed |-> "clean_and_preprocess", df |-> NoDataFrame]
             ELSE IF generate_data_summary(cleaned.df).raised # ""
             THEN [status |-> 500, failed |-> "generate_data_summary", df |-> NoDataFrame]
             ELSE [status |-> 200, failed |-> "", df |-> cleaned.df]

\* tempfile.NamedTemporaryFile(delete=False): a file of a name no file has
TempNames == 1..MaxTemp
NamedTemporaryFile(dir) ==
    CHOOSE p \in TempNames \ dir : \A q \in TempNames \ dir : p <= q

\* `if os.path.exists(path): os.unlink(path)`
unlink_kept(dir, path) == dir
unlink(dir, path) == dir \ {path}

\* the handler up to `content = await file.read()`: validate_file_upload, and
\* for a file that passes, the temporary file the content is then written to
upload_received(filename, file_size) ==
    /\ IF ~validate_file_upload(filename, file_size)
       THEN /\ resp' = Http("upload", 400, <<"validate_file_upload">>)
            /\ UNCHANGED filevars
       ELSE /\ tempdir # TempNames
            /\ \E content \in FilesRead :
                   LET temp_file_path == NamedTemporaryFile(tempdir)
                   IN  /\ tempdir' = tempdir \cup {temp_file_path}
                       /\ uploading' = Put(uploading, temp_file_path,
                                           [filename |-> filename,
                                            file_size |-> file_size,
                                            content |-> content])
            /\ UNCHANGED <<background_tasks, resp>>
    /\ StoreUnchanged
    /\ UNCHANGED <<lockvars, backlog, req, histvars, procvars, datavars>>

\* the handler from there to its end: the file is read, validated, cleaned and
\* summarised, create_session is called and cleanup_temp_file is scheduled; an
\* exception on the way goes to `except HTTPException` or `except Exception`,
\* which unlink the temporary file
upload_processed(temp_file_path) ==
    /\ temp_file_path \in DOMAIN uploading
    /\ LET r == process_upload(uploading[temp_file_path].content)
       IN  IF r.status = 200
           THEN /\ \E s \in SessionIds, o \in SaveOutcomes :
                       create_session(s, Stored(r.df), o)
                /\ background_tasks' = background_tasks \cup {temp_file_path}
                /\ tempdir' = tempdir
                /\ resp' = Http("upload", 200, uuid4(ret'.id))
           ELSE /\ tempdir' = unlink(tempdir, temp_file_path)
                /\ resp' = Http("upload", r.status, <<r.failed>>)
                /\ StoreUnchanged
                /\ UNCHANGED background_tasks
    /\ uploading' = Pop(uploading, temp_file_path)
    /\ UNCHANGED <<lockvars, backlog, req, histvars, procvars, datavars>>

\* the response is sent and the handler's processed_df goes
upload_returns(r) ==
    /\ Drop(r)
    /\ UNCHANGED <<lockvars, apivars, envvars>>

\* the background task cleanup_temp_file(file_path), after the response
cleanup_temp_file(file_path) ==
    /\ file_path \in background_tasks
    /\ tempdir' = unlink(tempdir, file_path)
    /\ background_tasks' = background_tasks \ {file_path}
    /\ StoreUnchanged
    /\ UNCHANGED <<uploading, lockvars, apivars, histvars, procvars, datavars>>

NextUpload ==
    \/ \E filename \in Filenames, file_size \in FileSizes :
           upload_received(filename, file_size)
    \/ \E temp_file_path \in TempNames : upload_processed(temp_file_path)
    \/ \E r \in CallerRefs : upload_returns(r)
    \/ \E file_path \in TempNames : cleanup_temp_file(file_path)

SpecUpload == Init /\ [][NextUpload]_vars

\* every validation and every step before create_session succeeds on the file
Passes(file) ==
    /\ validate_file_upload(file.filename, file.file_size)
    /\ file.content.readable
    /\ validate_dataframe_structure(file.content.df)
    /\ clean_and_preprocess(file.content.df).raised = ""
    /\ generate_data_summary(clean_and_preprocess(file.content.df).df).raised = ""

\* the temporary files of the upload handlers that end in the step
Ended == DOMAIN uploading \ DOMAIN uploading'

\* C28: a session is created only by an upload whose file passed the file
\* validation, the validation of the table, the cleaning and the summary; an
\* upload that is refused or fails at one of them answers 400 or 500 and leaves
\* the store as it was; the staging copy is unlinked by the handler when the
\* upload fails and by the scheduled cleanup_temp_file when it succeeds, so
\* that no staging copy is left without a handler or a cleanup to remove it.
C28_UploadAllOrNothing ==
    [][/\ \A p \in Ended :
              IF Passes(uploading[p])
              THEN resp'.status = 200 /\ p \in background_tasks'
              ELSE /\ resp'.status \in {400, 500}
                   /\ UNCHANGED <<sessions, dataframes, heap, held, disk, issued>>
                   /\ p \notin tempdir'
       /\ DOMAIN sessions' \ DOMAIN sessions # {} =>
              \E p \in Ended : Passes(uploading[p])
       /\ Ended = {} => UNCHANGED <<sessions, dataframes, disk, issued>>
       /\ \A p \in background_tasks \ background_tasks' : p \notin tempdir'
       /\ tempdir' \subseteq DOMAIN uploading' \cup background_tasks']_vars

\* an upload has made a session and its staging copy has been cleaned up, and a
\* later upload has failed in clean_and_preprocess: no staging copy is left
C28_Witness ==
    /\ resp.ep = "upload" /\ resp.status = 500
    /\ resp.body = <<"clean_and_preprocess">>
    /\ sessions # EmptyMap
    /\ uploading = EmptyMap
    /\ tempdir = {} /\ background_tasks = {}

====
